---- MODULE Spec2Model ----
(***************************************************************************)
(* The Effect-TS user service (works/with-effect/user-service.ts): the     *)
(* repository and service functions as operators over the outcomes of the  *)
(* Database / Cache services, and the batch, retry and run entry points as *)
(* state machines.                                                         *)
(*                                                                         *)
(* Times are counted in hours instead of milliseconds (DayHours = 24).     *)
(* Strings that the code inspects character by character (emails, names)   *)
(* are sequences of one-character strings.                                 *)
(***************************************************************************)
EXTENDS Integers, Sequences, FiniteSets, TLC

VARIABLES
  entry,        \* the exported operation the caller is running
  pc,           \* "new" | "running" (the effect value is built) | "done"
  exit,         \* the exit of the operation once pc = "done"
  userIds,      \* processUserBatch / processWithConcurrencyLimit: the input items
  itemState,    \* per item: Pending, Running, Succeeded, Failed, Cancelled
  acc,          \* Effect.partition: [failures, successes] collected so far
  outcomes,     \* the exit of each item's effect, by input index (NoExit before)
  limit,        \* processWithConcurrencyLimit: the concurrencyLimit argument
  held,         \* per item: release handlers registered and not yet run
  released,     \* per item: release handlers that have run
  interrupted,  \* forEach: a failure has been seen, the siblings are being cancelled
  failLog,      \* forEach: the failures in the order they occurred
  retryUserId,  \* processWithRetry: the userId argument
  attempts,     \* processWithRetry: the exit of each execution of getUserProfile
  delays,       \* processWithRetry: the delays the schedule has imposed, in ms
  program,      \* run: the effect handed to the runner
  runner,       \* run: runWithLive, runWithTest, or provide (a layer of the caller's)
  layer,        \* run: the layer provided, service name -> implementation
  served,       \* run: what the services answered during the execution
  trace,        \* run: the service and console calls made, in order
  step,         \* processFile: the index of the body's next step
  scope,        \* processFile: the resources acquired in the scope, in order
  releaseLog,   \* processFile: the resources whose release has run, in order
  primary,      \* processFile: how the body ended (NoExit while it runs)
  defects,      \* processFile: the failures of release handlers, in order
  executing,    \* manual limiter: the number of promises pushed to `executing`
  awaiting,     \* manual limiter: what the function is suspended on (none, race, all)
  awaited,      \* manual limiter: how the awaited promise settled (NoExit while pending)
  results,      \* manual limiter: the results pushed so far, in completion order
  db,           \* shared store: the rows of the users table
  cacheStore,   \* shared store: the cache, user id -> cached user (NoUser if none)
  calls         \* shared store: per caller, the repository call it makes and where it is

batchVars == <<acc>>
forEachVars == <<limit, held, released, interrupted, failLog>>
itemVars == <<userIds, itemState, outcomes>>
retryVars == <<retryUserId, attempts, delays>>
runVars == <<program, runner, layer, served, trace>>
scopeVars == <<step, scope, releaseLog, primary, defects>>
manualVars == <<executing, awaiting, awaited, results>>
storeVars == <<db, cacheStore, calls>>
vars == <<entry, pc, exit, userIds, itemState, acc, outcomes, limit, held, released, interrupted,
          failLog, retryUserId, attempts, delays, program, runner, layer, served, trace,
          step, scope, releaseLog, primary, defects, executing, awaiting, awaited, results,
          db, cacheStore, calls>>

\* ------------------------------------------------------------------ bounds

MaxItems == 3          \* longest list of items handed to a batch
MaxLimit == 2          \* largest concurrencyLimit
MaxHandlers == 1       \* most release handlers one item registers
Now == 1000            \* Date.now(), in hours

\* ------------------------------------------------------------------ domain

Ids == {"u1", "u2"}

DayHours == 24
NewUserDays == 30
CacheTtl == 300

NoUser == [id |-> "", email |-> <<>>, name |-> "", createdAt |-> 0]

MkUser(id, email, name, createdAt) ==
  [id |-> id, email |-> email, name |-> name, createdAt |-> createdAt]

JohnEmail == <<"j", "@", "x", ".", "c">>
AnnEmail == <<"a", "@", "x", ".", "c">>

\* rows the database may hold: one older than NewUserDays, one newer
Users ==
  { MkUser("u1", JohnEmail, "Jo", 100),
    MkUser("u2", AnnEmail, "An", 900) }

\* tagged errors
UserNotFoundError(userId) == [tag |-> "UserNotFoundError", userId |-> userId, message |-> "", field |-> ""]
DatabaseError(message) == [tag |-> "DatabaseError", userId |-> "", message |-> message, field |-> ""]
ValidationError(message, field) == [tag |-> "ValidationError", userId |-> "", message |-> message, field |-> field]
CacheError(message) == [tag |-> "CacheError", userId |-> "", message |-> message, field |-> ""]

NoError == [tag |-> "", userId |-> "", message |-> "", field |-> ""]
NoExit == [kind |-> "none", err |-> NoError]

\* exits of an effect: a success carries val, a failure carries err
Succeed(v) == [kind |-> "success", val |-> v, err |-> NoError]
Fail(e) == [kind |-> "failure", err |-> e]

IsSuccess(x) == x.kind = "success"
IsFailure(x) == x.kind = "failure"

\* one call to a service, as recorded in the trace of an execution
Call(op, arg) == [call |-> op, arg |-> arg]
DbCall(op, sql, params) == [call |-> op, arg |-> sql, params |-> params]
LogError(message, error) == [call |-> "logger.error", arg |-> message, error |-> error]
CacheSet(key, value, ttl) == [call |-> "cache.set", arg |-> key, value |-> value, ttl |-> ttl]

\* what the services may answer
CacheGetOutcomes ==
  { [kind |-> "hit", user |-> u] : u \in Users }
    \cup { [kind |-> "miss", user |-> NoUser], [kind |-> "error", user |-> NoUser] }

DbQueryOutcomes ==
  { [kind |-> "rows", rows |-> <<u>>] : u \in Users }
    \cup { [kind |-> "rows", rows |-> <<>>], [kind |-> "error", rows |-> <<>>] }

VoidOutcomes == {"ok", "error"}

\* the outcomes one execution of findUserById may meet
FindOutcomes ==
  [cacheGet : CacheGetOutcomes, dbQuery : DbQueryOutcomes, cacheSet : VoidOutcomes]

\* ------------------------------------------------------------------ repository

\* findUserById without the catchTag around cache.get and cache.set
FindUserByIdCacheUncaught(id, o) ==
  LET key == "user:" \o id
      t1 == << Call("logger.debug", "Finding user by ID"), Call("cache.get", key) >>
      t3 == Append(t1, DbCall("db.query", "SELECT * FROM users WHERE id = ?", <<id>>))
      user == o.dbQuery.rows[1]
      t4 == Append(t3, CacheSet(key, user, CacheTtl))
  IN  IF o.cacheGet.kind = "error"
        THEN [exit |-> Fail(CacheError("get failed")), trace |-> t1]
      ELSE IF o.cacheGet.kind = "hit"
        THEN [exit |-> Succeed(o.cacheGet.user),
              trace |-> Append(t1, Call("logger.debug", "User found in cache"))]
      ELSE IF o.dbQuery.kind = "error"
        THEN [exit |-> Fail(DatabaseError("query failed")), trace |-> t3]
      ELSE IF Len(o.dbQuery.rows) = 0
        THEN [exit |-> Fail(UserNotFoundError(id)), trace |-> t3]
      ELSE IF o.cacheSet = "error"
        THEN [exit |-> Fail(CacheError("set failed")), trace |-> t4]
      ELSE [exit |-> Succeed(user), trace |-> t4]

\* findUserById that queries the database before it looks at the cache
FindUserByIdQueryFirst(id, o) ==
  LET key == "user:" \o id
      t1 == << Call("logger.debug", "Finding user by ID"),
               DbCall("db.query", "SELECT * FROM users WHERE id = ?", <<id>>),
               Call("cache.get", key) >>
      user == o.dbQuery.rows[1]
      t2 == Append(t1, CacheSet(key, user, CacheTtl))
  IN  IF o.cacheGet.kind = "hit"
        THEN [exit |-> Succeed(o.cacheGet.user), trace |-> t1]
      ELSE IF o.dbQuery.kind = "error"
        THEN [exit |-> Fail(DatabaseError("query failed")), trace |-> t1]
      ELSE IF Len(o.dbQuery.rows) = 0
        THEN [exit |-> Fail(UserNotFoundError(id)), trace |-> t1]
      ELSE [exit |-> Succeed(user), trace |-> t2]

\* findUserById(id) run against services answering o: [exit, trace]
FindUserById(id, o) ==
  LET key == "user:" \o id
      t1 == << Call("logger.debug", "Finding user by ID"), Call("cache.get", key) >>
      \* catchTag("CacheError"): log and treat as a miss
      t2 == IF o.cacheGet.kind = "error"
              THEN Append(t1, LogError("Cache error while fetching user", CacheError("get failed")))
              ELSE t1
      t3 == Append(t2, DbCall("db.query", "SELECT * FROM users WHERE id = ?", <<id>>))
      user == o.dbQuery.rows[1]
      t4 == Append(t3, CacheSet(key, user, CacheTtl))
      t5 == IF o.cacheSet = "error"
              THEN Append(t4, LogError("Failed to cache user", CacheError("set failed")))
              ELSE t4
  IN  IF o.cacheGet.kind = "hit"
        THEN [exit |-> Succeed(o.cacheGet.user),
              trace |-> Append(t2, Call("logger.debug", "User found in cache"))]
      ELSE IF o.dbQuery.kind = "error"
        THEN [exit |-> Fail(DatabaseError("query failed")), trace |-> t3]
      ELSE IF Len(o.dbQuery.rows) = 0
        THEN [exit |-> Fail(UserNotFoundError(id)), trace |-> t3]
      ELSE [exit |-> Succeed(user), trace |-> t5]

\* ------------------------------------------------------------------ service

AccountAgeDays(user) == (Now - user.createdAt) \div DayHours

GetUserProfile(userId, o) ==
  LET Profile(user, days) ==
        [user |-> user, accountAge |-> days, isNewUser |-> days < NewUserDays]
      Computed(found) ==
        IF IsFailure(found.exit)
          THEN found
          ELSE [exit |-> Succeed(Profile(found.exit.val, AccountAgeDays(found.exit.val))),
                trace |-> found.trace]
  IN  Computed(FindUserById(userId, o))

\* ------------------------------------------------------------------ batch

ItemStates == {"Pending", "Running", "Succeeded", "Failed", "Cancelled"}

ItemLists == UNION { [1..n -> Ids] : n \in 0..MaxItems }

\* Effect.partition's accumulator after the item userId ended with x
PartitionItem(a, userId, x) ==
  IF IsSuccess(x)
    THEN [a EXCEPT !.successes = Append(@, [userId |-> userId, profile |-> x.val])]
    ELSE [a EXCEPT !.failures = Append(@, x.err)]

\* the pair destructured the wrong way round: [successes, failures]
BatchResultSwapped(a) ==
  [successful |-> a.failures,
   failed |-> [i \in 1..Len(a.successes) |-> [userId |-> "unknown", error |-> "undefined"]]]

\* the value processUserBatch maps the partition to
BatchResult(a) ==
  [successful |-> a.successes,
   failed |-> [i \in 1..Len(a.failures) |->
                 [userId |-> "unknown", error |-> a.failures[i].tag]]]

\* Effect.validateAll in place of Effect.partition: fails once an item has failed
ValidateAllExit(a) ==
  IF Len(a.failures) > 0 THEN Fail(a.failures[1]) ELSE Succeed(BatchResult(a))

\* the exit of processUserBatch: partition never fails
ProcessUserBatchExit(a) == Succeed(BatchResult(a))

\* partition runs the items one at a time, in input order
BatchStart(i) ==
  /\ entry = "processUserBatch" /\ pc = "running"
  /\ itemState[i] = "Pending"
  /\ \A j \in 1..Len(userIds) : j < i => itemState[j] \in {"Succeeded", "Failed"}
  /\ itemState' = [itemState EXCEPT ![i] = "Running"]
  /\ UNCHANGED <<entry, pc, exit, userIds, acc, outcomes>>
  /\ UNCHANGED forEachVars
  /\ UNCHANGED retryVars
  /\ UNCHANGED runVars
  /\ UNCHANGED scopeVars
  /\ UNCHANGED manualVars
  /\ UNCHANGED storeVars

BatchComplete(i, o) ==
  /\ entry = "processUserBatch" /\ pc = "running"
  /\ itemState[i] = "Running"
  /\ LET x == GetUserProfile(userIds[i], o).exit
     IN  /\ itemState' = [itemState EXCEPT ![i] = IF IsSuccess(x) THEN "Succeeded" ELSE "Failed"]
         /\ acc' = PartitionItem(acc, userIds[i], x)
         /\ outcomes' = [outcomes EXCEPT ![i] = x]
  /\ UNCHANGED <<entry, pc, exit, userIds>>
  /\ UNCHANGED forEachVars
  /\ UNCHANGED retryVars
  /\ UNCHANGED runVars
  /\ UNCHANGED scopeVars
  /\ UNCHANGED manualVars
  /\ UNCHANGED storeVars

BatchReturn ==
  /\ entry = "processUserBatch" /\ pc = "running"
  /\ \A j \in 1..Len(userIds) : itemState[j] \in {"Succeeded", "Failed"}
  /\ pc' = "done"
  /\ exit' = ProcessUserBatchExit(acc)
  /\ UNCHANGED <<entry, userIds, itemState, acc, outcomes>>
  /\ UNCHANGED forEachVars
  /\ UNCHANGED retryVars
  /\ UNCHANGED runVars
  /\ UNCHANGED scopeVars
  /\ UNCHANGED manualVars
  /\ UNCHANGED storeVars

\* ------------------------------------------------------------------ forEach

\* the options processWithConcurrencyLimit hands to Effect.forEach
ForEachAllAtOnce(items, concurrencyLimit) == [concurrency |-> Len(items)]

ProcessWithConcurrencyLimitOptions(items, concurrencyLimit) ==
  [concurrency |-> concurrencyLimit]

Running == { i \in 1..Len(userIds) : itemState[i] = "Running" }
Pending == { i \in 1..Len(userIds) : itemState[i] = "Pending" }

\* what the processor may fail with on an item
ProcessorErrors(item) == { UserNotFoundError(item), DatabaseError("query failed") }

\* the states a cancellation may hit
CancellableAnyUnfinished(s) == s \in {"Pending", "Running"}

Cancellable(s) == s = "Running"

\* the handlers left registered once an item's scope has closed
ScopeLeaksOnInterrupt(h, state) == IF state = "Cancelled" THEN h ELSE 0

ScopeClose(h, state) == 0

\* fixed batches of c items: the items of a batch start only when every item of
\* the batches before has ended
SlotFreeInFixedBatches(i, c) ==
  /\ Cardinality(Running) < c
  /\ \A j \in 1..Len(userIds) :
       (j - 1) \div c < (i - 1) \div c =>
         itemState[j] \in {"Succeeded", "Failed", "Cancelled"}

\* a sliding window of c items: the item i may start whenever fewer than c items
\* are in flight
SlotFree(i, c) == Cardinality(Running) < c

\* a slot is free and nothing has failed: the next pending item is started
ForEachStart(i) ==
  /\ entry = "processWithConcurrencyLimit" /\ pc = "running"
  /\ ~interrupted
  /\ i \in Pending /\ \A j \in Pending : i <= j
  /\ SlotFree(i, ProcessWithConcurrencyLimitOptions(userIds, limit).concurrency)
  /\ itemState' = [itemState EXCEPT ![i] = "Running"]
  /\ UNCHANGED <<entry, pc, exit, userIds, outcomes, limit, held, released, interrupted, failLog>>
  /\ UNCHANGED batchVars
  /\ UNCHANGED retryVars
  /\ UNCHANGED runVars
  /\ UNCHANGED scopeVars
  /\ UNCHANGED manualVars
  /\ UNCHANGED storeVars

\* a running item registers a release handler (acquireRelease in its scope)
ForEachAcquire(i) ==
  /\ entry = "processWithConcurrencyLimit" /\ pc = "running"
  /\ ~interrupted
  /\ i \in Running /\ held[i] < MaxHandlers
  /\ held' = [held EXCEPT ![i] = @ + 1]
  /\ UNCHANGED <<entry, pc, exit, userIds, itemState, outcomes, limit, released, interrupted, failLog>>
  /\ UNCHANGED batchVars
  /\ UNCHANGED retryVars
  /\ UNCHANGED runVars
  /\ UNCHANGED scopeVars
  /\ UNCHANGED manualVars
  /\ UNCHANGED storeVars

ForEachSucceed(i) ==
  /\ entry = "processWithConcurrencyLimit" /\ pc = "running"
  /\ ~interrupted
  /\ i \in Running
  /\ itemState' = [itemState EXCEPT ![i] = "Succeeded"]
  /\ outcomes' = [outcomes EXCEPT ![i] = Succeed(userIds[i])]
  /\ held' = [held EXCEPT ![i] = ScopeClose(@, "Succeeded")]
  /\ released' = [released EXCEPT ![i] = @ + held[i] - held'[i]]
  /\ UNCHANGED <<entry, pc, exit, userIds, limit, interrupted, failLog>>
  /\ UNCHANGED batchVars
  /\ UNCHANGED retryVars
  /\ UNCHANGED runVars
  /\ UNCHANGED scopeVars
  /\ UNCHANGED manualVars
  /\ UNCHANGED storeVars

\* the first failure: pending items are dropped, the siblings in flight interrupted
ForEachFail(i, e) ==
  /\ entry = "processWithConcurrencyLimit" /\ pc = "running"
  /\ ~interrupted
  /\ i \in Running
  /\ itemState' = [itemState EXCEPT ![i] = "Failed"]
  /\ outcomes' = [outcomes EXCEPT ![i] = Fail(e)]
  /\ held' = [held EXCEPT ![i] = ScopeClose(@, "Failed")]
  /\ released' = [released EXCEPT ![i] = @ + held[i] - held'[i]]
  /\ interrupted' = TRUE
  /\ failLog' = Append(failLog, e)
  /\ UNCHANGED <<entry, pc, exit, userIds, limit>>
  /\ UNCHANGED batchVars
  /\ UNCHANGED retryVars
  /\ UNCHANGED runVars
  /\ UNCHANGED scopeVars
  /\ UNCHANGED manualVars
  /\ UNCHANGED storeVars

\* an interrupted item stops at its next suspension point and runs its handlers
ForEachCancel(i) ==
  /\ entry = "processWithConcurrencyLimit" /\ pc = "running"
  /\ interrupted
  /\ Cancellable(itemState[i])
  /\ itemState' = [itemState EXCEPT ![i] = "Cancelled"]
  /\ held' = [held EXCEPT ![i] = ScopeClose(@, "Cancelled")]
  /\ released' = [released EXCEPT ![i] = @ + held[i] - held'[i]]
  /\ UNCHANGED <<entry, pc, exit, userIds, outcomes, limit, interrupted, failLog>>
  /\ UNCHANGED batchVars
  /\ UNCHANGED retryVars
  /\ UNCHANGED runVars
  /\ UNCHANGED scopeVars
  /\ UNCHANGED manualVars
  /\ UNCHANGED storeVars

\* the batch returns once nothing is in flight and nothing is left to start
ForEachReturn ==
  /\ entry = "processWithConcurrencyLimit" /\ pc = "running"
  /\ Running = {}
  /\ interrupted \/ Pending = {}
  /\ pc' = "done"
  /\ exit' = IF interrupted
               THEN Fail(failLog[1])
               ELSE Succeed([i \in 1..Len(userIds) |-> outcomes[i].val])
  /\ UNCHANGED <<entry, userIds, itemState, outcomes, limit, held, released, interrupted, failLog>>
  /\ UNCHANGED batchVars
  /\ UNCHANGED retryVars
  /\ UNCHANGED runVars
  /\ UNCHANGED scopeVars
  /\ UNCHANGED manualVars
  /\ UNCHANGED storeVars

\* ------------------------------------------------------------------ retry

RetryBaseMillis == 100
RetryRecurs == 3

\* Schedule.exponential(100 ms) composed with Schedule.recurs(3), at its k-th step
\* (k = 0 for the first failure): recur while fewer than 3 recurrences were made
ScheduleRecursOffByOne(k) ==
  [continue |-> k <= RetryRecurs, delay |-> RetryBaseMillis * 2^k]

ProcessWithRetrySchedule(k) ==
  [continue |-> k < RetryRecurs, delay |-> RetryBaseMillis * 2^k]

\* Effect.repeat in place of Effect.retry: run again after a success
RepeatAgain(x, k) == IsSuccess(x) /\ ProcessWithRetrySchedule(k).continue

\* Effect.retry: run again after a failure while the schedule continues
RetryAgain(x, k) == IsFailure(x) /\ ProcessWithRetrySchedule(k).continue

\* one execution of getUserProfile(userId) under processWithRetry
RetryAttempt(o) ==
  /\ entry = "processWithRetry" /\ pc = "running"
  /\ LET x == GetUserProfile(retryUserId, o).exit
         k == Len(delays)
     IN  /\ attempts' = Append(attempts, x)
         /\ IF RetryAgain(x, k)
              THEN /\ delays' = Append(delays, ProcessWithRetrySchedule(k).delay)
                   /\ UNCHANGED <<pc, exit>>
              ELSE /\ pc' = "done"
                   /\ exit' = x
                   /\ UNCHANGED delays
  /\ UNCHANGED <<entry, retryUserId>>
  /\ UNCHANGED itemVars
  /\ UNCHANGED batchVars
  /\ UNCHANGED forEachVars
  /\ UNCHANGED runVars
  /\ UNCHANGED scopeVars
  /\ UNCHANGED manualVars
  /\ UNCHANGED storeVars

\* ------------------------------------------------------------------ validation

IsSpaceOrAt(c) == c \in {" ", "@"}

\* /^[^\s@]+@[^\s@]+\.[^\s@]+$/ on a sequence of characters: one "@", no white
\* space, something before the "@", and after it a "." that has something on
\* both sides
EmailRegexTest(email) ==
  \E p \in 1..Len(email) :
    /\ email[p] = "@"
    /\ p > 1
    /\ \A k \in 1..Len(email) : k # p => ~IsSpaceOrAt(email[k])
    /\ \E q \in (p + 2)..(Len(email) - 1) : email[q] = "."

ValidateEmail(email) ==
  IF EmailRegexTest(email)
    THEN Succeed(email)
    ELSE Fail(ValidationError("Invalid email format", "email"))

MinNameLength == 2

ValidateName(name) ==
  IF Len(name) >= MinNameLength
    THEN Succeed(name)
    ELSE Fail(ValidationError("Name must be at least 2 characters", "name"))

\* ------------------------------------------------------------------ create / register

\* an empty result raised as UserNotFoundError instead of returned as none
FindUserByEmailOrNotFound(email, o) ==
  LET t == << Call("logger.debug", "Finding user by email"),
              DbCall("db.query", "SELECT * FROM users WHERE email = ?", <<email>>) >>
  IN  IF o.emailQuery.kind = "error"
        THEN [exit |-> Fail(DatabaseError("query failed")), trace |-> t]
      ELSE IF Len(o.emailQuery.rows) = 0
        THEN [exit |-> Fail(UserNotFoundError("")), trace |-> t]
      ELSE [exit |-> Succeed([some |-> TRUE, value |-> o.emailQuery.rows[1]]), trace |-> t]

\* findUserByEmail(email): [exit, trace]; the exit's value is the rows' first or none
FindUserByEmail(email, o) ==
  LET t == << Call("logger.debug", "Finding user by email"),
              DbCall("db.query", "SELECT * FROM users WHERE email = ?", <<email>>) >>
  IN  IF o.emailQuery.kind = "error"
        THEN [exit |-> Fail(DatabaseError("query failed")), trace |-> t]
        ELSE [exit |-> Succeed(IF Len(o.emailQuery.rows) > 0
                                 THEN [some |-> TRUE, value |-> o.emailQuery.rows[1]]
                                 ELSE [some |-> FALSE, value |-> NoUser]),
              trace |-> t]

\* createUser that executes the INSERT before it looks at the result of the lookup
CreateUserInsertFirst(input, o) ==
  LET t1 == << Call("logger.info", "Creating new user") >>
      existing == FindUserByEmail(input.email, o)
      user == MkUser(o.uuid, input.email, input.name, Now)
      t3 == Append(t1 \o existing.trace,
                   DbCall("db.execute",
                          "INSERT INTO users (id, email, name, created_at) VALUES (?, ?, ?, ?)",
                          <<user.id, user.email, user.name, user.createdAt>>))
  IN  IF IsFailure(existing.exit)
        THEN [exit |-> existing.exit, trace |-> t3]
      ELSE IF existing.exit.val.some
        THEN [exit |-> Fail(ValidationError("Email already in use", "email")), trace |-> t3]
      ELSE IF o.dbExecute = "error"
        THEN [exit |-> Fail(DatabaseError("execute failed")), trace |-> t3]
      ELSE [exit |-> Succeed(user), trace |-> t3]

CreateUser(input, o) ==
  LET t1 == << Call("logger.info", "Creating new user") >>
      existing == FindUserByEmail(input.email, o)
      t2 == t1 \o existing.trace
      user == MkUser(o.uuid, input.email, input.name, Now)
      t3 == Append(t2, DbCall("db.execute",
                              "INSERT INTO users (id, email, name, created_at) VALUES (?, ?, ?, ?)",
                              <<user.id, user.email, user.name, user.createdAt>>))
  IN  IF IsFailure(existing.exit)
        THEN [exit |-> existing.exit, trace |-> t2]
      ELSE IF existing.exit.val.some
        THEN [exit |-> Fail(ValidationError("Email already in use", "email")), trace |-> t2]
      ELSE IF o.dbExecute = "error"
        THEN [exit |-> Fail(DatabaseError("execute failed")), trace |-> t3]
      ELSE [exit |-> Succeed(user), trace |-> t3]

\* the validations checked only after createUser has run
RegisterUserCreateFirst(input, o) ==
  LET created == CreateUser(input, o)
  IN  IF IsFailure(ValidateEmail(input.email))
        THEN [exit |-> ValidateEmail(input.email), trace |-> created.trace]
      ELSE IF IsFailure(ValidateName(input.name))
        THEN [exit |-> ValidateName(input.name), trace |-> created.trace]
      ELSE created

RegisterUser(input, o) ==
  IF IsFailure(ValidateEmail(input.email))
    THEN [exit |-> ValidateEmail(input.email), trace |-> <<>>]
  ELSE IF IsFailure(ValidateName(input.name))
    THEN [exit |-> ValidateName(input.name), trace |-> <<>>]
  ELSE CreateUser(input, o)

\* ------------------------------------------------------------------ update / delete

\* cache.delete(key) piped through catchTag("CacheError"): a failure is
\* logged with the given message and the step succeeds
InvalidateCacheUncaught(key, outcome, message) ==
  [exit |-> IF outcome = "error" THEN Fail(CacheError("delete failed")) ELSE Succeed("void"),
   trace |-> << Call("cache.delete", key) >>]

InvalidateCache(key, outcome, message) ==
  [exit |-> Succeed("void"),
   trace |-> IF outcome = "error"
               THEN << Call("cache.delete", key), LogError(message, CacheError("delete failed")) >>
               ELSE << Call("cache.delete", key) >>]

\* the write to the database, and only after it the cache invalidation
InvalidateThenWrite(write, invalidated) == Append(invalidated.trace, write)

WriteThenInvalidate(write, invalidated) == << write >> \o invalidated.trace

\* an UpdateUserInput: each field may be absent
UpdateInput(hasEmail, email, hasName, name) ==
  [hasEmail |-> hasEmail, email |-> email, hasName |-> hasName, name |-> name]

\* the uniqueness check made whenever the input carries an email
ChangesEmailWhenPresent(input, user) == input.hasEmail

\* input.email && input.email !== user.email
ChangesEmail(input, user) ==
  input.hasEmail /\ input.email # <<>> /\ input.email # user.email

\* { ...user, email: input.email ?? user.email, name: input.name ?? user.name }
UpdatedUser(user, input) ==
  [user EXCEPT !.email = IF input.hasEmail THEN input.email ELSE user.email,
               !.name = IF input.hasName THEN input.name ELSE user.name]

UpdateUser(id, input, o) ==
  LET t1 == << Call("logger.info", "Updating user") >>
      \* the UPDATE and the cache invalidation, t being the calls made before
      Finish(updated, t, write, invalidated) ==
        IF o.dbExecute = "error"
          THEN [exit |-> Fail(DatabaseError("execute failed")), trace |-> Append(t, write)]
        ELSE IF IsFailure(invalidated.exit)
          THEN [exit |-> invalidated.exit,
                trace |-> t \o WriteThenInvalidate(write, invalidated)]
        ELSE [exit |-> Succeed(updated),
              trace |-> t \o WriteThenInvalidate(write, invalidated)]
      Store(updated, t) ==
        Finish(updated, t,
               DbCall("db.execute", "UPDATE users SET email = ?, name = ? WHERE id = ?",
                      <<updated.email, updated.name, id>>),
               InvalidateCache("user:" \o id, o.cacheDelete, "Failed to invalidate user cache"))
      \* the email uniqueness check
      Checked(user, t, existing) ==
        IF IsFailure(existing.exit)
          THEN [exit |-> existing.exit, trace |-> t \o existing.trace]
        ELSE IF existing.exit.val.some
          THEN [exit |-> Fail(ValidationError("Email already in use", "email")),
                trace |-> t \o existing.trace]
        ELSE Store(UpdatedUser(user, input), t \o existing.trace)
      Found(user, t) ==
        IF ChangesEmail(input, user)
          THEN Checked(user, t, FindUserByEmail(input.email, o))
          ELSE Store(UpdatedUser(user, input), t)
      Start(found) ==
        IF IsFailure(found.exit)
          THEN [exit |-> found.exit, trace |-> t1 \o found.trace]
          ELSE Found(found.exit.val, t1 \o found.trace)
  IN  Start(FindUserById(id, o))

DeleteUser(id, o) ==
  LET t1 == << Call("logger.info", "Deleting user") >>
      write == DbCall("db.execute", "DELETE FROM users WHERE id = ?", <<id>>)
      Finish(t, invalidated) ==
        IF o.dbExecute = "error"
          THEN [exit |-> Fail(DatabaseError("execute failed")), trace |-> Append(t, write)]
        ELSE IF IsFailure(invalidated.exit)
          THEN [exit |-> invalidated.exit,
                trace |-> t \o WriteThenInvalidate(write, invalidated)]
        ELSE [exit |-> Succeed("void"),
              trace |-> t \o WriteThenInvalidate(write, invalidated)]
      Start(found) ==
        IF IsFailure(found.exit)
          THEN [exit |-> found.exit, trace |-> t1 \o found.trace]
          ELSE Finish(t1 \o found.trace,
                      InvalidateCache("user:" \o id, o.cacheDelete,
                                      "Failed to invalidate user cache after delete"))
  IN  Start(FindUserById(id, o))

ChangeEmail(userId, newEmail, o) ==
  IF IsFailure(ValidateEmail(newEmail))
    THEN [exit |-> ValidateEmail(newEmail), trace |-> <<>>]
    ELSE UpdateUser(userId, UpdateInput(TRUE, newEmail, FALSE, ""), o)

\* ------------------------------------------------------------------ http

HttpResponse(status, body) == [status |-> status, body |-> body]

StatusOk == 200
StatusCreated == 201
StatusNotFound == 404
StatusBadRequest == 400
StatusUnavailable == 503

\* a missing user answered with the success status
MapErrorToResponseNotFoundAsOk(error) ==
  CASE error.tag = "UserNotFoundError" ->
         HttpResponse(StatusOk, [error |-> "User not found", field |-> ""])
    [] error.tag = "ValidationError" ->
         HttpResponse(StatusBadRequest, [error |-> error.message, field |-> error.field])
    [] OTHER ->
         HttpResponse(StatusUnavailable, [error |-> "Service unavailable", field |-> ""])

MapErrorToResponse(error) ==
  CASE error.tag = "UserNotFoundError" ->
         HttpResponse(StatusNotFound, [error |-> "User not found", field |-> ""])
    [] error.tag = "ValidationError" ->
         HttpResponse(StatusBadRequest, [error |-> error.message, field |-> error.field])
    [] error.tag = "DatabaseError" ->
         HttpResponse(StatusUnavailable, [error |-> "Service unavailable", field |-> ""])
    [] error.tag = "CacheError" ->
         HttpResponse(StatusUnavailable, [error |-> "Service degraded", field |-> ""])

\* pipe(effect, Effect.map(v => ({ status, body: v })),
\*      Effect.catchAll(e => Effect.succeed(mapErrorToResponse(e))))
Respond(x, status) ==
  IF IsSuccess(x)
    THEN Succeed(HttpResponse(status, x.val))
    ELSE Succeed(MapErrorToResponse(x.err))

\* the handler's effect run: the calls of the wrapped effect, its exit responded to
Handle(r, status) == [exit |-> Respond(r.exit, status), trace |-> r.trace]

GetUserHandler(req, o) == Handle(GetUserProfile(req.id, o), StatusOk)

CreateUserHandler(req, o) ==
  Handle(RegisterUser([email |-> req.email, name |-> req.name], o), StatusCreated)

UpdateEmailHandler(req, o) == Handle(ChangeEmail(req.id, req.email, o), StatusOk)

\* the E parameter of each effect's type
DeclaredErrors(op) ==
  CASE op = "findUserById" -> {"UserNotFoundError", "DatabaseError", "CacheError"}
    [] op = "findUserByEmail" -> {"DatabaseError"}
    [] op = "createUser" -> {"ValidationError", "DatabaseError"}
    [] op = "updateUser" ->
         {"UserNotFoundError", "ValidationError", "DatabaseError", "CacheError"}
    [] op = "deleteUser" -> {"UserNotFoundError", "DatabaseError", "CacheError"}
    [] op = "getUserProfile" -> {"UserNotFoundError", "DatabaseError", "CacheError"}
    [] op = "registerUser" -> {"ValidationError", "DatabaseError"}
    [] op = "changeEmail" ->
         {"UserNotFoundError", "ValidationError", "DatabaseError", "CacheError"}
    [] op = "getUserHandler" -> {}
    [] op = "createUserHandler" -> {}
    [] op = "updateEmailHandler" -> {}

\* ------------------------------------------------------------------ example program

JohnExampleCom ==
  <<"j", "o", "h", "n", "@", "e", "x", "a", "m", "p", "l", "e", ".", "c", "o", "m">>

ExampleInput == [email |-> JohnExampleCom, name |-> "John Doe"]

\* catchAll in place of catchTag("ValidationError")
RegisterOrFallbackOnAnyError(x) ==
  IF IsFailure(x)
    THEN Succeed(MkUser("fallback", <<>>, x.err.message, Now))
    ELSE x

\* registerUser's exit behind catchTag("ValidationError", e => succeed(fallback))
RegisterOrFallback(x) ==
  IF IsFailure(x) /\ x.err.tag = "ValidationError"
    THEN Succeed(MkUser("fallback", <<>>, x.err.message, Now))
    ELSE x

ExampleProgram(o) ==
  LET t1 == << Call("console.log", "Starting user operations...") >>
      reg == RegisterUser(ExampleInput, o)
      created == RegisterOrFallback(reg.exit)
      user == created.val
      t2 == Append(t1 \o reg.trace, Call("console.log", "Created user: " \o user.name))
      got == GetUserProfile(user.id, o)
      \* catchAll: any failure of getUserProfile becomes a default profile
      profile == IF IsFailure(got.exit)
                   THEN [user |-> user, accountAge |-> 0, isNewUser |-> TRUE]
                   ELSE got.exit.val
      t3 == Append(t2 \o got.trace,
                   Call("console.log",
                        "Profile - Account age: " \o ToString(profile.accountAge) \o " days"))
  IN  IF IsFailure(created)
        THEN [exit |-> created, trace |-> t1 \o reg.trace]
        ELSE [exit |-> Succeed(profile), trace |-> t3]

\* ------------------------------------------------------------------ succeed / map

\* pure functions handed to map, by name
Fns == {"id", "inc", "double"}

ApplyFn(f, v) ==
  CASE f = "id" -> v
    [] f = "inc" -> v + 1
    [] f = "double" -> 2 * v

\* a function built by composition is the sequence of the functions applied,
\* innermost first
RECURSIVE ApplyAll(_, _)
ApplyAll(fs, v) ==
  IF fs = <<>> THEN v ELSE ApplyAll(Tail(fs), ApplyFn(Head(fs), v))

\* x => g(f(x))
Compose(g, f) == f \o g

\* only the innermost function of a composition is applied
EffectMapInnermostOnly(x, fs) ==
  IF IsSuccess(x) THEN Succeed(ApplyFn(Head(fs), x.val)) ELSE x

\* Effect.map: the success value transformed, a failure passed on unchanged
EffectMap(x, fs) ==
  IF IsSuccess(x) THEN Succeed(ApplyAll(fs, x.val)) ELSE x

\* the effects map is applied to: succeed(v) and fail(e)
BaseValue == 5
BaseEffect(b) ==
  IF b = "succeed"
    THEN Succeed(BaseValue)
    ELSE Fail(ValidationError("Invalid email format", "email"))

FnPairs == { <<"inc", "double">>, <<"double", "inc">>, <<"id", "inc">> }

PurePrograms ==
  { [op |-> "succeed", args |-> [base |-> "succeed", f |-> "id", g |-> "id"]] }
    \cup { [op |-> "mapId", args |-> [base |-> b, f |-> "id", g |-> "id"]] :
             b \in {"succeed", "fail"} }
    \cup { [op |-> o, args |-> [base |-> b, f |-> fg[1], g |-> fg[2]]] :
             o \in {"mapTwice", "mapComposed"}, b \in {"succeed", "fail"}, fg \in FnPairs }

ExecutePure(p) ==
  CASE p.op = "succeed" -> BaseEffect(p.args.base)
    [] p.op = "mapId" -> EffectMap(BaseEffect(p.args.base), << "id" >>)
    [] p.op = "mapTwice" ->
         EffectMap(EffectMap(BaseEffect(p.args.base), << p.args.f >>), << p.args.g >>)
    [] p.op = "mapComposed" ->
         EffectMap(BaseEffect(p.args.base), Compose(<< p.args.g >>, << p.args.f >>))

\* ------------------------------------------------------------------ layers

Services == {"Database", "Cache", "Logger"}

DatabaseLive == [s \in {"Database"} |-> "DatabaseLive"]
CacheLive == [s \in {"Cache"} |-> "CacheLive"]
LoggerLive == [s \in {"Logger"} |-> "LoggerLive"]
DatabaseTest == [s \in {"Database"} |-> "DatabaseTest"]
CacheTest == [s \in {"Cache"} |-> "CacheTest"]
LoggerTest == [s \in {"Logger"} |-> "LoggerTest"]

\* Layer.mergeAll: the union of the layers, a later layer winning
MergeAll(l1, l2, l3) ==
  [s \in DOMAIN l1 \cup DOMAIN l2 \cup DOMAIN l3 |->
     IF s \in DOMAIN l3 THEN l3[s] ELSE IF s \in DOMAIN l2 THEN l2[s] ELSE l1[s]]

AppLayerLive == MergeAll(DatabaseLive, CacheLive, LoggerLive)

AppLayerTestWithoutCache == MergeAll(DatabaseTest, LoggerTest, LoggerTest)

AppLayerTest == MergeAll(DatabaseTest, CacheTest, LoggerTest)

\* layers a caller may assemble itself: any services, behaving in any way
CustomLayers == { [s \in S |-> s \o "Any"] : S \in SUBSET Services }

TestUser ==
  MkUser("test", <<"t", "e", "s", "t", "@", "t", "e", "s", "t", ".", "c", "o", "m">>, "Test", Now)

Impl(l, s) == IF s \in DOMAIN l THEN l[s] ELSE "none"

\* what each implementation answers
DbQueryOutcomesOf(impl) ==
  CASE impl = "DatabaseLive" -> { [kind |-> "rows", rows |-> <<>>] }
    [] impl = "DatabaseTest" -> { [kind |-> "rows", rows |-> <<TestUser>>] }
    [] impl = "DatabaseAny" -> DbQueryOutcomes
    [] OTHER -> { [kind |-> "rows", rows |-> <<>>] }

DbExecuteOutcomesOf(impl) ==
  IF impl = "DatabaseAny" THEN VoidOutcomes ELSE {"ok"}

CacheGetOutcomesOf(impl) ==
  IF impl = "CacheAny" THEN CacheGetOutcomes ELSE { [kind |-> "miss", user |-> NoUser] }

CacheVoidOutcomesOf(impl) ==
  IF impl = "CacheAny" THEN VoidOutcomes ELSE {"ok"}

NewIds == {"n1"}

\* the answers one execution may meet under the layer l
ProgramOutcomes(l) ==
  [cacheGet : CacheGetOutcomesOf(Impl(l, "Cache")),
   dbQuery : DbQueryOutcomesOf(Impl(l, "Database")),
   cacheSet : CacheVoidOutcomesOf(Impl(l, "Cache")),
   emailQuery : DbQueryOutcomesOf(Impl(l, "Database")),
   dbExecute : DbExecuteOutcomesOf(Impl(l, "Database")),
   cacheDelete : CacheVoidOutcomesOf(Impl(l, "Cache")),
   uuid : NewIds]

\* ------------------------------------------------------------------ run

InputEmails == { JohnExampleCom, <<"b", "a", "d">>, <<"a", "@", "b">> }
InputNames == { "John Doe", "J" }

NoArgs == [id |-> "", email |-> <<>>, name |-> "", hasEmail |-> FALSE, hasName |-> FALSE]

\* the UpdateUserInput values tried: a new name only, a new email, the
\* user's own or another user's email, an empty email, nothing at all
UpdateInputs ==
  { UpdateInput(FALSE, <<>>, TRUE, "Al"),
    UpdateInput(TRUE, JohnExampleCom, TRUE, "Al"),
    UpdateInput(TRUE, JohnEmail, FALSE, ""),
    UpdateInput(TRUE, <<>>, FALSE, ""),
    UpdateInput(FALSE, <<>>, FALSE, "") }

Program(op, args) == [op |-> op, args |-> args]

Programs ==
  { Program("findUserById", [NoArgs EXCEPT !.id = i]) : i \in Ids }
    \cup { Program("registerUser", [NoArgs EXCEPT !.email = e, !.name = n]) :
             e \in InputEmails, n \in InputNames }
    \cup { Program("exampleProgram", NoArgs) }
    \cup { Program("findUserByEmail", [NoArgs EXCEPT !.email = e]) : e \in {JohnEmail} }
    \cup { Program("createUser", [NoArgs EXCEPT !.email = e, !.name = "John Doe"]) :
             e \in {JohnExampleCom} }
    \cup { Program("getUserProfile", [NoArgs EXCEPT !.id = i]) : i \in Ids }
    \cup { Program("updateUser", [id |-> i, email |-> u.email, name |-> u.name,
                                  hasEmail |-> u.hasEmail, hasName |-> u.hasName]) :
             i \in {"u1"}, u \in UpdateInputs }
    \cup { Program("deleteUser", [NoArgs EXCEPT !.id = i]) : i \in Ids }
    \cup { Program("changeEmail", [NoArgs EXCEPT !.id = i, !.email = e]) :
             i \in {"u1"}, e \in InputEmails \cup {JohnEmail} }
    \cup { Program("getUserHandler", [NoArgs EXCEPT !.id = i]) : i \in Ids }
    \cup { Program("createUserHandler", [NoArgs EXCEPT !.email = e, !.name = n]) :
             e \in InputEmails, n \in InputNames }
    \cup { Program("updateEmailHandler", [NoArgs EXCEPT !.id = i, !.email = e]) :
             i \in {"u1"}, e \in InputEmails }
    \cup PurePrograms

\* the R parameter of each effect's type
Requirements(op) ==
  CASE op = "findUserById" -> {"Database", "Cache", "Logger"}
    [] op = "getUserProfile" -> {"Database", "Cache", "Logger"}
    [] op = "registerUser" -> {"Database", "Logger"}
    [] op = "exampleProgram" -> {"Database", "Logger"} \cup {"Database", "Cache", "Logger"}
    [] op = "findUserByEmail" -> {"Database", "Logger"}
    [] op = "createUser" -> {"Database", "Logger"}
    [] op = "updateUser" -> {"Database", "Cache", "Logger"}
    [] op = "deleteUser" -> {"Database", "Cache", "Logger"}
    [] op = "changeEmail" -> {"Database", "Cache", "Logger"}
    [] op = "getUserHandler" -> {"Database", "Cache", "Logger"}
    [] op = "createUserHandler" -> {"Database", "Logger"}
    [] op = "updateEmailHandler" -> {"Database", "Cache", "Logger"}
    [] op \in {"succeed", "mapId", "mapTwice", "mapComposed"} -> {}

Execute(p, o) ==
  CASE p.op = "findUserById" -> FindUserById(p.args.id, o)
    [] p.op = "registerUser" -> RegisterUser(p.args, o)
    [] p.op = "exampleProgram" -> ExampleProgram(o)
    [] p.op = "findUserByEmail" -> FindUserByEmail(p.args.email, o)
    [] p.op = "createUser" -> CreateUser(p.args, o)
    [] p.op = "getUserProfile" -> GetUserProfile(p.args.id, o)
    [] p.op = "updateUser" -> UpdateUser(p.args.id, p.args, o)
    [] p.op = "deleteUser" -> DeleteUser(p.args.id, o)
    [] p.op = "changeEmail" -> ChangeEmail(p.args.id, p.args.email, o)
    [] p.op = "getUserHandler" -> GetUserHandler(p.args, o)
    [] p.op = "createUserHandler" -> CreateUserHandler(p.args, o)
    [] p.op = "updateEmailHandler" -> UpdateEmailHandler(p.args, o)
    [] p.op \in {"succeed", "mapId", "mapTwice", "mapComposed"} ->
         [exit |-> ExecutePure(p), trace |-> <<>>]

Rejected == [kind |-> "rejected", err |-> NoError]

\* Effect.provide(l) then Effect.runPromise: only an effect with no requirement
\* left is run
ProvideAndRun(p, l, o) ==
  IF Requirements(p.op) \subseteq DOMAIN l
    THEN Execute(p, o)
    ELSE [exit |-> Rejected, trace |-> <<>>]

RunWithLive(p, o) == ProvideAndRun(p, AppLayerLive, o)
RunWithTest(p, o) == ProvideAndRun(p, AppLayerTest, o)

RunnerLayers(r) ==
  CASE r = "runWithLive" -> {AppLayerLive}
    [] r = "runWithTest" -> {AppLayerTest}
    [] r = "provide" -> CustomLayers

Run(o) ==
  /\ entry = "run" /\ pc = "running"
  /\ LET Settle(r) == exit' = r.exit /\ trace' = trace \o r.trace
     IN  Settle(CASE runner = "runWithLive" -> RunWithLive(program, o)
                  [] runner = "runWithTest" -> RunWithTest(program, o)
                  [] runner = "provide" -> ProvideAndRun(program, layer, o))
  /\ served' = o
  /\ pc' = "done"
  /\ UNCHANGED <<entry, program, runner, layer>>
  /\ UNCHANGED itemVars
  /\ UNCHANGED batchVars
  /\ UNCHANGED forEachVars
  /\ UNCHANGED retryVars
  /\ UNCHANGED scopeVars
  /\ UNCHANGED manualVars
  /\ UNCHANGED storeVars

\* ------------------------------------------------------------------ processFile

FileError(message) == [tag |-> "FileError", userId |-> "", message |-> message, field |-> ""]

\* the body of processFile inside Effect.scoped: two acquisitions, then two uses
ProcessFileBody ==
  << [kind |-> "acquire", resource |-> "file", error |-> FileError("open failed")],
     [kind |-> "acquire", resource |-> "connection", error |-> DatabaseError("connect failed")],
     [kind |-> "use", resource |-> "file", error |-> FileError("read failed")],
     [kind |-> "use", resource |-> "connection", error |-> DatabaseError("insert failed")] >>

Interrupted == [kind |-> "interrupted", err |-> NoError]

\* close().pipe(Effect.orDie): a failing close is a defect of the release step
CloseDefect(resource) == [resource |-> resource, defect |-> "close failed"]

Unreleased == { k \in 1..Len(scope) : \A j \in 1..Len(releaseLog) : releaseLog[j] # scope[k] }

\* the oldest acquisition first
OldestAcquired(S) == CHOOSE k \in S : \A j \in S : k <= j

\* the scope runs its finalizers last acquired, first released
NextToRelease(S) == CHOOSE k \in S : \A j \in S : k >= j

\* try / finally: a failure of the cleanup replaces the failure of the body
ScopedExitLikeFinally(p, d) ==
  IF d # <<>>
    THEN [kind |-> "died", err |-> NoError, defects |-> d]
    ELSE [kind |-> p.kind, err |-> p.err, defects |-> <<>>]

\* the exit of the scoped effect: the body's exit together with every failure of
\* a release step
ScopedExit(p, d) ==
  [kind |-> IF IsSuccess(p) /\ d # <<>> THEN "died" ELSE p.kind,
   err |-> p.err,
   defects |-> d]

\* the body's next step runs and succeeds or fails
ProcessFileStep(outcome) ==
  /\ entry = "processFile" /\ pc = "running" /\ primary = NoExit
  /\ step <= Len(ProcessFileBody)
  /\ LET s == ProcessFileBody[step]
     IN  IF outcome = "ok"
           THEN /\ scope' = IF s.kind = "acquire" THEN Append(scope, s.resource) ELSE scope
                /\ step' = step + 1
                /\ primary' = IF step = Len(ProcessFileBody) THEN Succeed("result") ELSE primary
           ELSE /\ primary' = Fail(s.error)
                /\ UNCHANGED <<scope, step>>
  /\ UNCHANGED <<entry, pc, exit, releaseLog, defects>>
  /\ UNCHANGED itemVars
  /\ UNCHANGED batchVars
  /\ UNCHANGED forEachVars
  /\ UNCHANGED retryVars
  /\ UNCHANGED runVars
  /\ UNCHANGED manualVars
  /\ UNCHANGED storeVars

\* the fiber is cancelled while the body waits at a step
ProcessFileInterrupt ==
  /\ entry = "processFile" /\ pc = "running" /\ primary = NoExit
  /\ primary' = Interrupted
  /\ UNCHANGED <<entry, pc, exit, step, scope, releaseLog, defects>>
  /\ UNCHANGED itemVars
  /\ UNCHANGED batchVars
  /\ UNCHANGED forEachVars
  /\ UNCHANGED retryVars
  /\ UNCHANGED runVars
  /\ UNCHANGED manualVars
  /\ UNCHANGED storeVars

\* the body has ended: one release step runs and succeeds or fails
ProcessFileRelease(outcome) ==
  /\ entry = "processFile" /\ pc = "running" /\ primary # NoExit
  /\ Unreleased # {}
  /\ LET r == scope[NextToRelease(Unreleased)]
     IN  /\ releaseLog' = Append(releaseLog, r)
         /\ defects' = IF outcome = "error" THEN Append(defects, CloseDefect(r)) ELSE defects
  /\ UNCHANGED <<entry, pc, exit, step, scope, primary>>
  /\ UNCHANGED itemVars
  /\ UNCHANGED batchVars
  /\ UNCHANGED forEachVars
  /\ UNCHANGED retryVars
  /\ UNCHANGED runVars
  /\ UNCHANGED manualVars
  /\ UNCHANGED storeVars

\* every release has run: the scoped effect ends
ProcessFileExit ==
  /\ entry = "processFile" /\ pc = "running" /\ primary # NoExit
  /\ Unreleased = {}
  /\ exit' = ScopedExit(primary, defects)
  /\ pc' = "done"
  /\ UNCHANGED <<entry, step, scope, releaseLog, primary, defects>>
  /\ UNCHANGED itemVars
  /\ UNCHANGED batchVars
  /\ UNCHANGED forEachVars
  /\ UNCHANGED retryVars
  /\ UNCHANGED runVars
  /\ UNCHANGED manualVars
  /\ UNCHANGED storeVars

\* ------------------------------------------------------------------ construction

\* a function that would log before it returns its effect value
ConstructionCallsLoggingEagerly(e, p) ==
  IF p.op = "findUserById" THEN << Call("logger.debug", "Finding user by ID") >> ELSE <<>>

\* the service and console calls made by calling an exported function (or, for
\* exampleProgram, by evaluating the constant): each returns Effect.gen(function* ...)
\* or a pipe of combinators whose callbacks are not invoked yet
ConstructionCalls(e, p) == <<>>

\* the caller builds the effect value of the entry, not yet running it (a
\* no-effect method has no such stage: calling it runs it)
Build ==
  /\ pc = "new"
  /\ pc' = "running"
  /\ trace' = trace \o ConstructionCalls(entry, program)
  /\ UNCHANGED <<entry, exit, program, runner, layer, served>>
  /\ UNCHANGED itemVars
  /\ UNCHANGED batchVars
  /\ UNCHANGED forEachVars
  /\ UNCHANGED retryVars
  /\ UNCHANGED scopeVars
  /\ UNCHANGED manualVars
  /\ UNCHANGED storeVars

\* ------------------------------------------------------------------ no-effect implementation
\* works/no-effect/user-service.ts: the same service with promises, exceptions and
\* constructor injection. A rejected promise is a failure exit whose err is the
\* thrown error, its tag the class of the error.

\* what a failing db or cache call throws: not one of the domain's error classes
ServiceThrows == [tag |-> "Error", userId |-> "", message |-> "service failed", field |-> ""]

ThrownUserNotFoundError(userId) ==
  [tag |-> "UserNotFoundError", userId |-> userId,
   message |-> "User not found: " \o userId, field |-> ""]

\* every error of the query block wrapped, the UserNotFoundError included
FindByIdCatchWrappingAll(thrown) == DatabaseError("Failed to fetch user from database")

\* catch (error) of findById's query block
FindByIdCatch(thrown) ==
  IF thrown.tag = "UserNotFoundError"
    THEN thrown
    ELSE DatabaseError("Failed to fetch user from database")

\* findById without the try/catch around cache.get and cache.set, the cache
\* throwing the CacheError class
UserRepositoryFindByIdCacheUncaught(id, o) ==
  LET key == "user:" \o id
      t1 == << Call("logger.debug", "Finding user by ID"), Call("cache.get", key) >>
      t3 == Append(t1, DbCall("db.query", "SELECT * FROM users WHERE id = ?", <<id>>))
      user == o.dbQuery.rows[1]
      t4 == Append(t3, CacheSet(key, user, CacheTtl))
  IN  IF o.cacheGet.kind = "error"
        THEN [exit |-> Fail(CacheError("cache unavailable")), trace |-> t1]
      ELSE IF o.cacheGet.kind = "hit"
        THEN [exit |-> Succeed(o.cacheGet.user),
              trace |-> Append(t1, Call("logger.debug", "User found in cache"))]
      ELSE IF o.dbQuery.kind = "error"
        THEN [exit |-> Fail(DatabaseError("Failed to fetch user from database")), trace |-> t3]
      ELSE IF Len(o.dbQuery.rows) = 0
        THEN [exit |-> Fail(ThrownUserNotFoundError(id)), trace |-> t3]
      ELSE IF o.cacheSet = "error"
        THEN [exit |-> Fail(DatabaseError("Failed to fetch user from database")), trace |-> t4]
      ELSE [exit |-> Succeed(user), trace |-> t4]

UserRepositoryFindById(id, o) ==
  LET key == "user:" \o id
      t1 == << Call("logger.debug", "Finding user by ID"), Call("cache.get", key) >>
      t2 == IF o.cacheGet.kind = "error"
              THEN Append(t1, LogError("Cache error while fetching user", ServiceThrows))
              ELSE t1
      t3 == Append(t2, DbCall("db.query", "SELECT * FROM users WHERE id = ?", <<id>>))
      user == o.dbQuery.rows[1]
      t4 == Append(t3, CacheSet(key, user, CacheTtl))
      t5 == IF o.cacheSet = "error"
              THEN Append(t4, LogError("Failed to cache user", ServiceThrows))
              ELSE t4
      \* the try block around the query
      block == IF o.dbQuery.kind = "error" THEN [exit |-> Fail(ServiceThrows), trace |-> t3]
               ELSE IF Len(o.dbQuery.rows) = 0
                 THEN [exit |-> Fail(ThrownUserNotFoundError(id)), trace |-> t3]
               ELSE [exit |-> Succeed(user), trace |-> t5]
  IN  IF o.cacheGet.kind = "hit"
        THEN [exit |-> Succeed(o.cacheGet.user),
              trace |-> Append(t1, Call("logger.debug", "User found in cache"))]
      ELSE IF IsFailure(block.exit)
        THEN [exit |-> Fail(FindByIdCatch(block.exit.err)), trace |-> block.trace]
      ELSE block

\* the promise resolves with the user or null
UserRepositoryFindByEmail(email, o) ==
  LET t == << Call("logger.debug", "Finding user by email"),
              DbCall("db.query", "SELECT * FROM users WHERE email = ?", <<email>>) >>
  IN  IF o.emailQuery.kind = "error"
        THEN [exit |-> Fail(DatabaseError("Failed to fetch user by email")), trace |-> t]
        ELSE [exit |-> Succeed(IF Len(o.emailQuery.rows) > 0
                                 THEN o.emailQuery.rows[1]
                                 ELSE NoUser),
              trace |-> t]

UserRepositoryCreate(input, o) ==
  LET t1 == << Call("logger.info", "Creating new user") >>
      existing == UserRepositoryFindByEmail(input.email, o)
      t2 == t1 \o existing.trace
      user == MkUser(o.uuid, input.email, input.name, Now)
      t3 == Append(t2, DbCall("db.execute",
                              "INSERT INTO users (id, email, name, created_at) VALUES (?, ?, ?, ?)",
                              <<user.id, user.email, user.name, user.createdAt>>))
  IN  IF IsFailure(existing.exit)
        THEN [exit |-> existing.exit, trace |-> t2]
      ELSE IF existing.exit.val # NoUser
        THEN [exit |-> Fail(ValidationError("Email already in use", "email")), trace |-> t2]
      ELSE IF o.dbExecute = "error"
        THEN [exit |-> Fail(DatabaseError("Failed to create user")), trace |-> t3]
      ELSE [exit |-> Succeed(user), trace |-> t3]

\* try { await cache.delete(key) } catch (error) { logger.error(message, ...) }
TryCacheDelete(key, outcome, message) ==
  IF outcome = "error"
    THEN << Call("cache.delete", key), LogError(message, ServiceThrows) >>
    ELSE << Call("cache.delete", key) >>

UserRepositoryUpdate(id, input, o) ==
  LET t1 == << Call("logger.info", "Updating user") >>
      \* the try block around the UPDATE and the cache invalidation
      Store(updated, t) ==
        IF o.dbExecute = "error"
          THEN [exit |-> Fail(DatabaseError("Failed to update user")),
                trace |-> Append(t, DbCall("db.execute",
                                           "UPDATE users SET email = ?, name = ? WHERE id = ?",
                                           <<updated.email, updated.name, id>>))]
          ELSE [exit |-> Succeed(updated),
                trace |-> Append(t, DbCall("db.execute",
                                           "UPDATE users SET email = ?, name = ? WHERE id = ?",
                                           <<updated.email, updated.name, id>>))
                            \o TryCacheDelete("user:" \o id, o.cacheDelete,
                                              "Failed to invalidate user cache")]
      Checked(user, t, existing) ==
        IF IsFailure(existing.exit)
          THEN [exit |-> existing.exit, trace |-> t \o existing.trace]
        ELSE IF existing.exit.val # NoUser
          THEN [exit |-> Fail(ValidationError("Email already in use", "email")),
                trace |-> t \o existing.trace]
        ELSE Store(UpdatedUser(user, input), t \o existing.trace)
      Found(user, t) ==
        IF ChangesEmail(input, user)
          THEN Checked(user, t, UserRepositoryFindByEmail(input.email, o))
          ELSE Store(UpdatedUser(user, input), t)
      Start(found) ==
        IF IsFailure(found.exit)
          THEN [exit |-> found.exit, trace |-> t1 \o found.trace]
          ELSE Found(found.exit.val, t1 \o found.trace)
  IN  Start(UserRepositoryFindById(id, o))

UserRepositoryDelete(id, o) ==
  LET t1 == << Call("logger.info", "Deleting user") >>
      write == DbCall("db.execute", "DELETE FROM users WHERE id = ?", <<id>>)
      Start(found) ==
        IF IsFailure(found.exit)
          THEN [exit |-> found.exit, trace |-> t1 \o found.trace]
        ELSE IF o.dbExecute = "error"
          THEN [exit |-> Fail(DatabaseError("Failed to delete user")),
                trace |-> Append(t1 \o found.trace, write)]
        ELSE [exit |-> Succeed("void"),
              trace |-> Append(t1 \o found.trace, write)
                          \o TryCacheDelete("user:" \o id, o.cacheDelete,
                                            "Failed to invalidate user cache after delete")]
  IN  Start(UserRepositoryFindById(id, o))

UserServiceGetUserProfile(userId, o) ==
  LET Profile(user, days) ==
        [user |-> user, accountAge |-> days, isNewUser |-> days < NewUserDays]
      Computed(found) ==
        IF IsFailure(found.exit)
          THEN found
          ELSE [exit |-> Succeed(Profile(found.exit.val, AccountAgeDays(found.exit.val))),
                trace |-> found.trace]
  IN  Computed(UserRepositoryFindById(userId, o))

UserServiceRegisterUser(input, o) ==
  IF ~EmailRegexTest(input.email)
    THEN [exit |-> Fail(ValidationError("Invalid email format", "email")), trace |-> <<>>]
  ELSE IF Len(input.name) < MinNameLength
    THEN [exit |-> Fail(ValidationError("Name must be at least 2 characters", "name")),
          trace |-> <<>>]
  ELSE UserRepositoryCreate(input, o)

UserServiceChangeEmail(userId, newEmail, o) ==
  IF ~EmailRegexTest(newEmail)
    THEN [exit |-> Fail(ValidationError("Invalid email format", "email")), trace |-> <<>>]
    ELSE UserRepositoryUpdate(userId, UpdateInput(TRUE, newEmail, FALSE, ""), o)

StatusInternalError == 500

NotFoundResponse == HttpResponse(StatusNotFound, [error |-> "User not found", field |-> ""])
ValidationResponse(error) ==
  HttpResponse(StatusBadRequest, [error |-> error.message, field |-> error.field])
UnavailableResponse ==
  HttpResponse(StatusUnavailable, [error |-> "Service unavailable", field |-> ""])
InternalErrorResponse ==
  HttpResponse(StatusInternalError, [error |-> "Internal server error", field |-> ""])

\* the response a controller method sends: res.status(code).json(body)
UserControllerGetUser(req, o) ==
  LET Send(r) ==
        [exit |-> Succeed(IF IsSuccess(r.exit) THEN HttpResponse(StatusOk, r.exit.val)
                          ELSE IF r.exit.err.tag = "UserNotFoundError" THEN NotFoundResponse
                          ELSE IF r.exit.err.tag = "DatabaseError" THEN UnavailableResponse
                          ELSE InternalErrorResponse),
         trace |-> r.trace]
  IN  Send(UserServiceGetUserProfile(req.id, o))

UserControllerCreateUser(req, o) ==
  LET Send(r) ==
        [exit |-> Succeed(IF IsSuccess(r.exit) THEN HttpResponse(StatusCreated, r.exit.val)
                          ELSE IF r.exit.err.tag = "ValidationError"
                            THEN ValidationResponse(r.exit.err)
                          ELSE IF r.exit.err.tag = "DatabaseError" THEN UnavailableResponse
                          ELSE InternalErrorResponse),
         trace |-> r.trace]
  IN  Send(UserServiceRegisterUser([email |-> req.email, name |-> req.name], o))

UserControllerUpdateEmail(req, o) ==
  LET Send(r) ==
        [exit |-> Succeed(IF IsSuccess(r.exit) THEN HttpResponse(StatusOk, r.exit.val)
                          ELSE IF r.exit.err.tag = "UserNotFoundError" THEN NotFoundResponse
                          ELSE IF r.exit.err.tag = "ValidationError"
                            THEN ValidationResponse(r.exit.err)
                          ELSE IF r.exit.err.tag = "DatabaseError" THEN UnavailableResponse
                          ELSE InternalErrorResponse),
         trace |-> r.trace]
  IN  Send(UserServiceChangeEmail(req.id, req.email, o))

\* each no-effect operation and its with-effect counterpart
Counterpart(op) ==
  CASE op = "UserRepository.findById" -> "findUserById"
    [] op = "UserRepository.create" -> "createUser"
    [] op = "UserRepository.update" -> "updateUser"
    [] op = "UserRepository.delete" -> "deleteUser"
    [] op = "UserController.getUser" -> "getUserHandler"
    [] op = "UserController.createUser" -> "createUserHandler"
    [] op = "UserController.updateEmail" -> "updateEmailHandler"

NoEffectOps ==
  {"UserRepository.findById", "UserRepository.create", "UserRepository.update",
   "UserRepository.delete", "UserController.getUser", "UserController.createUser",
   "UserController.updateEmail"}

\* the same calls and requests as the with-effect programs
NoEffectPrograms ==
  UNION { { Program(op, p.args) : p \in { q \in Programs : q.op = Counterpart(op) } } :
            op \in NoEffectOps }

ExecuteNoEffect(p, o) ==
  CASE p.op = "UserRepository.findById" -> UserRepositoryFindById(p.args.id, o)
    [] p.op = "UserRepository.create" -> UserRepositoryCreate(p.args, o)
    [] p.op = "UserRepository.update" -> UserRepositoryUpdate(p.args.id, p.args, o)
    [] p.op = "UserRepository.delete" -> UserRepositoryDelete(p.args.id, o)
    [] p.op = "UserController.getUser" -> UserControllerGetUser(p.args, o)
    [] p.op = "UserController.createUser" -> UserControllerCreateUser(p.args, o)
    [] p.op = "UserController.updateEmail" -> UserControllerUpdateEmail(p.args, o)

\* the db and cache handed to the constructors may behave in any way
InjectedOutcomes ==
  [cacheGet : CacheGetOutcomes, dbQuery : DbQueryOutcomes, cacheSet : VoidOutcomes,
   emailQuery : DbQueryOutcomes, dbExecute : VoidOutcomes, cacheDelete : VoidOutcomes,
   uuid : NewIds]

\* one call of a no-effect operation, awaited to its end
RunNoEffect(o) ==
  /\ entry = "noEffect" /\ pc = "running"
  /\ LET Settle(r) == exit' = r.exit /\ trace' = trace \o r.trace
     IN  Settle(ExecuteNoEffect(program, o))
  /\ served' = o
  /\ pc' = "done"
  /\ UNCHANGED <<entry, program, runner, layer>>
  /\ UNCHANGED itemVars
  /\ UNCHANGED batchVars
  /\ UNCHANGED forEachVars
  /\ UNCHANGED retryVars
  /\ UNCHANGED scopeVars
  /\ UNCHANGED manualVars
  /\ UNCHANGED storeVars

\* ------------------------------------------------------------------ manual concurrency limit
\* works/no-effect/user-service.ts, processWithConcurrencyLimit: a for loop that
\* starts processor(item), pushes its promise to `executing` and, once the array
\* has concurrencyLimit entries, awaits Promise.race(executing). Nothing is ever
\* removed from `executing`, so it holds the promises of the items 1..executing.

\* the least element of a non-empty set of indices
First(S) == CHOOSE i \in S : \A j \in S : i <= j

\* Promise.race over the promises of the items 1..n at the time of the call: it
\* settles as the first already-settled promise of the array, and stays pending
\* when none has settled
PromiseRace(n, states, exits) ==
  LET done == { j \in 1..n : states[j] \in {"Succeeded", "Failed"} }
  IN  IF done = {} THEN NoExit
      ELSE IF IsFailure(exits[First(done)]) THEN exits[First(done)]
      ELSE Succeed("void")

\* Promise.all over the promises of the items 1..n: rejected as the first rejected
\* promise, fulfilled when every promise is fulfilled, pending otherwise
PromiseAll(n, states, exits) ==
  LET failed == { j \in 1..n : states[j] = "Failed" }
  IN  IF failed # {} THEN exits[First(failed)]
      ELSE IF \A j \in 1..n : states[j] = "Succeeded" THEN Succeed("void")
      ELSE NoExit

\* how the settling of one more promise settles the promise being awaited
AwaitedAfter(n, states, exits) ==
  CASE awaiting = "race" /\ awaited = NoExit -> PromiseRace(n, states, exits)
    [] awaiting = "all" /\ awaited = NoExit -> PromiseAll(n, states, exits)
    [] OTHER -> awaited

ManualEntry == entry = "manualConcurrencyLimit"

\* the processor(item) promises started and not yet settled
ManualInFlight == { i \in 1..Len(userIds) : itemState[i] = "Running" }

\* one iteration of the for loop up to its await: processor(item) is called, its
\* promise pushed, and the race awaited if the array has reached the limit
ManualStart ==
  /\ ManualEntry /\ pc = "running" /\ awaiting = "none"
  /\ executing < Len(userIds)
  /\ itemState' = [itemState EXCEPT ![executing + 1] = "Running"]
  /\ executing' = executing + 1
  /\ IF executing' >= limit
       THEN /\ awaiting' = "race"
            /\ awaited' = PromiseRace(executing', itemState', outcomes)
       ELSE UNCHANGED <<awaiting, awaited>>
  /\ UNCHANGED <<entry, pc, exit, userIds, outcomes, limit, results>>
  /\ UNCHANGED batchVars
  /\ UNCHANGED forEachVars
  /\ UNCHANGED retryVars
  /\ UNCHANGED runVars
  /\ UNCHANGED scopeVars
  /\ UNCHANGED storeVars

\* processor(item) fulfils: the then-callback pushes the result
ManualFulfil(i) ==
  /\ ManualEntry /\ i \in ManualInFlight
  /\ itemState' = [itemState EXCEPT ![i] = "Succeeded"]
  /\ outcomes' = [outcomes EXCEPT ![i] = Succeed(userIds[i])]
  /\ results' = Append(results, userIds[i])
  /\ awaited' = AwaitedAfter(executing, itemState', outcomes')
  /\ UNCHANGED <<entry, pc, exit, userIds, limit, executing, awaiting>>
  /\ UNCHANGED batchVars
  /\ UNCHANGED forEachVars
  /\ UNCHANGED retryVars
  /\ UNCHANGED runVars
  /\ UNCHANGED scopeVars
  /\ UNCHANGED storeVars

\* processor(item) rejects: so does the promise pushed for it
ManualReject(i, e) ==
  /\ ManualEntry /\ i \in ManualInFlight
  /\ itemState' = [itemState EXCEPT ![i] = "Failed"]
  /\ outcomes' = [outcomes EXCEPT ![i] = Fail(e)]
  /\ awaited' = AwaitedAfter(executing, itemState', outcomes')
  /\ UNCHANGED <<entry, pc, exit, userIds, limit, executing, awaiting, results>>
  /\ UNCHANGED batchVars
  /\ UNCHANGED forEachVars
  /\ UNCHANGED retryVars
  /\ UNCHANGED runVars
  /\ UNCHANGED scopeVars
  /\ UNCHANGED storeVars

\* the awaited race has settled: the loop goes on, or the function rejects
ManualResume ==
  /\ ManualEntry /\ pc = "running" /\ awaiting = "race" /\ awaited # NoExit
  /\ IF IsFailure(awaited)
       THEN pc' = "done" /\ exit' = awaited
       ELSE UNCHANGED <<pc, exit>>
  /\ awaiting' = "none"
  /\ awaited' = NoExit
  /\ UNCHANGED <<entry, userIds, itemState, outcomes, limit, executing, results>>
  /\ UNCHANGED batchVars
  /\ UNCHANGED forEachVars
  /\ UNCHANGED retryVars
  /\ UNCHANGED runVars
  /\ UNCHANGED scopeVars
  /\ UNCHANGED storeVars

\* the loop is over: await Promise.all(executing)
ManualAwaitAll ==
  /\ ManualEntry /\ pc = "running" /\ awaiting = "none"
  /\ executing = Len(userIds)
  /\ awaiting' = "all"
  /\ awaited' = PromiseAll(executing, itemState, outcomes)
  /\ UNCHANGED <<entry, pc, exit, userIds, itemState, outcomes, limit, executing, results>>
  /\ UNCHANGED batchVars
  /\ UNCHANGED forEachVars
  /\ UNCHANGED retryVars
  /\ UNCHANGED runVars
  /\ UNCHANGED scopeVars
  /\ UNCHANGED storeVars

\* return results, or reject as Promise.all did
ManualReturn ==
  /\ ManualEntry /\ pc = "running" /\ awaiting = "all" /\ awaited # NoExit
  /\ pc' = "done"
  /\ exit' = (IF IsFailure(awaited) THEN awaited ELSE Succeed(results))
  /\ awaiting' = "none"
  /\ awaited' = NoExit
  /\ UNCHANGED <<entry, userIds, itemState, outcomes, limit, executing, results>>
  /\ UNCHANGED batchVars
  /\ UNCHANGED forEachVars
  /\ UNCHANGED retryVars
  /\ UNCHANGED runVars
  /\ UNCHANGED scopeVars
  /\ UNCHANGED storeVars

\* ------------------------------------------------------------------ shared store
\* works/no-effect/user-service.ts, UserRepository: calls of findById, create,
\* update and delete made by several callers against one database and one cache.
\* Every await is a point where another caller's step may come in between. The
\* database answers every statement; a cache call may throw.

Callers == {1, 2}

StoreEntry == entry = "sharedStore"

NoCall == [op |-> "none", args |-> NoArgs, at |-> "done", found |-> NoUser,
           after |-> {}, exit |-> NoExit]

\* a call not yet started: findById, update and delete begin with the cache read
\* of findById, create with the lookup by email
NewCall(op, args) ==
  [op |-> op, args |-> args,
   at |-> (IF op = "create" THEN "emailQuery" ELSE "cacheGet"),
   found |-> NoUser, after |-> {}, exit |-> NoExit]

\* the calls made: two callers may create with, or change to, the same new email
StoreCalls ==
  { NewCall("create", [NoArgs EXCEPT !.email = JohnExampleCom, !.name = "John Doe"]),
    NewCall("update", [NoArgs EXCEPT !.id = "u2", !.hasEmail = TRUE, !.email = JohnExampleCom]),
    NewCall("delete", [NoArgs EXCEPT !.id = "u1"]),
    NewCall("findById", [NoArgs EXCEPT !.id = "u1"]) }

\* crypto.randomUUID(): an id no other row or caller has
NewId(p) == IF p = 1 THEN "n1" ELSE "n2"

\* the ids whose delete has completed successfully
DeletedIds ==
  { c.args.id : c \in { calls[q] : q \in { r \in Callers :
      calls[r].op = "delete" /\ calls[r].at = "done" /\ IsSuccess(calls[r].exit) } } }

\* SELECT * FROM users WHERE id = ?
RowsById(id) == { u \in db : u.id = id }

\* SELECT * FROM users WHERE email = ?
RowsByEmail(email) == { u \in db : u.email = email }

\* where a call goes on once its findById has returned the user
AfterFindById(c, user) ==
  CASE c.op = "findById" -> [c EXCEPT !.at = "done", !.found = user, !.exit = Succeed(user)]
    [] c.op = "update" ->
         [c EXCEPT !.found = user,
                   !.at = IF ChangesEmail(c.args, user) THEN "emailQuery" ELSE "write"]
    [] c.op = "delete" -> [c EXCEPT !.found = user, !.at = "write"]

\* await this.cache.get(`user:${id}`) inside findById
StoreCacheGet(p, outcome) ==
  /\ StoreEntry /\ calls[p].at = "cacheGet"
  /\ LET Read(c, cached) ==
           IF outcome = "ok" /\ cached # NoUser
             THEN AfterFindById(c, cached)
             ELSE [c EXCEPT !.at = "dbQuery"]
     IN  calls' = [calls EXCEPT ![p] = Read([calls[p] EXCEPT !.after = DeletedIds],
                                            cacheStore[calls[p].args.id])]
  /\ UNCHANGED <<entry, pc, exit, db, cacheStore>>
  /\ UNCHANGED itemVars
  /\ UNCHANGED batchVars
  /\ UNCHANGED forEachVars
  /\ UNCHANGED retryVars
  /\ UNCHANGED runVars
  /\ UNCHANGED scopeVars
  /\ UNCHANGED manualVars

\* await this.db.query("SELECT * FROM users WHERE id = ?") inside findById
StoreDbQuery(p) ==
  /\ StoreEntry /\ calls[p].at = "dbQuery"
  /\ LET Read(c, rows) ==
           IF rows = {}
             THEN [c EXCEPT !.at = "done", !.exit = Fail(ThrownUserNotFoundError(c.args.id))]
             ELSE [c EXCEPT !.at = "cacheSet", !.found = CHOOSE u \in rows : TRUE]
     IN  calls' = [calls EXCEPT ![p] = Read(calls[p], RowsById(calls[p].args.id))]
  /\ UNCHANGED <<entry, pc, exit, db, cacheStore>>
  /\ UNCHANGED itemVars
  /\ UNCHANGED batchVars
  /\ UNCHANGED forEachVars
  /\ UNCHANGED retryVars
  /\ UNCHANGED runVars
  /\ UNCHANGED scopeVars
  /\ UNCHANGED manualVars

\* await this.cache.set(`user:${id}`, user, 300) inside findById, its error caught
StoreCacheSet(p, outcome) ==
  /\ StoreEntry /\ calls[p].at = "cacheSet"
  /\ cacheStore' = IF outcome = "ok"
                     THEN [cacheStore EXCEPT ![calls[p].args.id] = calls[p].found]
                     ELSE cacheStore
  /\ calls' = [calls EXCEPT ![p] = AfterFindById(calls[p], calls[p].found)]
  /\ UNCHANGED <<entry, pc, exit, db>>
  /\ UNCHANGED itemVars
  /\ UNCHANGED batchVars
  /\ UNCHANGED forEachVars
  /\ UNCHANGED retryVars
  /\ UNCHANGED runVars
  /\ UNCHANGED scopeVars
  /\ UNCHANGED manualVars

\* await this.findByEmail(input.email) in create and update
StoreEmailQuery(p) ==
  /\ StoreEntry /\ calls[p].at = "emailQuery"
  /\ calls' = [calls EXCEPT ![p] =
                 IF RowsByEmail(calls[p].args.email) # {}
                   THEN [@ EXCEPT !.at = "done",
                                  !.exit = Fail(ValidationError("Email already in use", "email"))]
                   ELSE [@ EXCEPT !.at = "write"]]
  /\ UNCHANGED <<entry, pc, exit, db, cacheStore>>
  /\ UNCHANGED itemVars
  /\ UNCHANGED batchVars
  /\ UNCHANGED forEachVars
  /\ UNCHANGED retryVars
  /\ UNCHANGED runVars
  /\ UNCHANGED scopeVars
  /\ UNCHANGED manualVars

\* the users table after the INSERT, UPDATE or DELETE of the call c of caller p
Written(c, p) ==
  CASE c.op = "create" -> db \cup { MkUser(NewId(p), c.args.email, c.args.name, Now) }
    [] c.op = "update" ->
         { IF u.id = c.args.id
             THEN [u EXCEPT !.email = UpdatedUser(c.found, c.args).email,
                            !.name = UpdatedUser(c.found, c.args).name]
             ELSE u : u \in db }
    [] c.op = "delete" -> db \ RowsById(c.args.id)

\* await this.db.execute(...) in create, update and delete
StoreWrite(p) ==
  /\ StoreEntry /\ calls[p].at = "write"
  /\ db' = Written(calls[p], p)
  /\ LET Wrote(c) ==
           IF c.op = "create"
             THEN [c EXCEPT !.at = "done",
                            !.exit = Succeed(MkUser(NewId(p), c.args.email, c.args.name, Now))]
             ELSE [c EXCEPT !.at = "cacheDelete"]
     IN  calls' = [calls EXCEPT ![p] = Wrote(calls[p])]
  /\ UNCHANGED <<entry, pc, exit, cacheStore>>
  /\ UNCHANGED itemVars
  /\ UNCHANGED batchVars
  /\ UNCHANGED forEachVars
  /\ UNCHANGED retryVars
  /\ UNCHANGED runVars
  /\ UNCHANGED scopeVars
  /\ UNCHANGED manualVars

\* await this.cache.delete(`user:${id}`) in update and delete, its error caught
StoreCacheDelete(p, outcome) ==
  /\ StoreEntry /\ calls[p].at = "cacheDelete"
  /\ cacheStore' = IF outcome = "ok"
                     THEN [cacheStore EXCEPT ![calls[p].args.id] = NoUser]
                     ELSE cacheStore
  /\ LET Returned(c) ==
           [c EXCEPT !.at = "done",
                     !.exit = IF c.op = "update"
                                THEN Succeed(UpdatedUser(c.found, c.args))
                                ELSE Succeed(NoUser)]
     IN  calls' = [calls EXCEPT ![p] = Returned(calls[p])]
  /\ UNCHANGED <<entry, pc, exit, db>>
  /\ UNCHANGED itemVars
  /\ UNCHANGED batchVars
  /\ UNCHANGED forEachVars
  /\ UNCHANGED retryVars
  /\ UNCHANGED runVars
  /\ UNCHANGED scopeVars
  /\ UNCHANGED manualVars

\* ------------------------------------------------------------------ system

Entries ==
  {"processUserBatch", "processWithConcurrencyLimit", "processWithRetry", "run", "processFile",
   "noEffect", "manualConcurrencyLimit", "sharedStore"}

Runners == {"runWithLive", "runWithTest", "provide"}
NoProgram == [op |-> "none", args |-> NoArgs]
NoOutcomes ==
  [cacheGet |-> [kind |-> "miss", user |-> NoUser],
   dbQuery |-> [kind |-> "rows", rows |-> <<>>],
   cacheSet |-> "ok",
   emailQuery |-> [kind |-> "rows", rows |-> <<>>],
   dbExecute |-> "ok",
   cacheDelete |-> "ok",
   uuid |-> ""]

IsBatch ==
  entry \in {"processUserBatch", "processWithConcurrencyLimit", "manualConcurrencyLimit"}

\* the entries whose call runs at once, there being no effect value to build
IsPromiseBased == entry \in {"noEffect", "manualConcurrencyLimit", "sharedStore"}

Init ==
  /\ entry \in Entries
  /\ pc = (IF IsPromiseBased THEN "running" ELSE "new")
  /\ exit = NoExit
  /\ userIds \in (IF IsBatch THEN ItemLists ELSE {<<>>})
  /\ itemState = [i \in 1..Len(userIds) |-> "Pending"]
  /\ acc = [failures |-> <<>>, successes |-> <<>>]
  /\ outcomes = [i \in 1..Len(userIds) |-> NoExit]
  /\ limit \in (IF entry \in {"processWithConcurrencyLimit", "manualConcurrencyLimit"}
                  THEN 1..MaxLimit ELSE {1})
  /\ held = [i \in 1..Len(userIds) |-> 0]
  /\ released = [i \in 1..Len(userIds) |-> 0]
  /\ interrupted = FALSE
  /\ failLog = <<>>
  /\ retryUserId \in (IF entry = "processWithRetry" THEN Ids ELSE {""})
  /\ attempts = <<>>
  /\ delays = <<>>
  /\ program \in (CASE entry = "run" -> Programs
                     [] entry = "noEffect" -> NoEffectPrograms
                     [] OTHER -> {NoProgram})
  /\ runner \in (IF entry = "run" THEN Runners ELSE {"none"})
  /\ layer \in (IF entry = "run" THEN RunnerLayers(runner) ELSE {<<>>})
  /\ served = NoOutcomes
  /\ trace = <<>>
  /\ step = 1
  /\ scope = <<>>
  /\ releaseLog = <<>>
  /\ primary = NoExit
  /\ defects = <<>>
  /\ executing = 0
  /\ awaiting = "none"
  /\ awaited = NoExit
  /\ results = <<>>
  /\ db = Users
  /\ cacheStore = [i \in Ids |-> NoUser]
  /\ calls \in (IF StoreEntry THEN [Callers -> StoreCalls] ELSE {[p \in Callers |-> NoCall]})

Next ==
  \/ Build
  \/ \E i \in 1..Len(userIds) : BatchStart(i)
  \/ \E i \in 1..Len(userIds), o \in FindOutcomes : BatchComplete(i, o)
  \/ BatchReturn
  \/ \E i \in 1..Len(userIds) : ForEachStart(i)
  \/ \E i \in 1..Len(userIds) : ForEachAcquire(i)
  \/ \E i \in 1..Len(userIds) : ForEachSucceed(i)
  \/ \E i \in 1..Len(userIds) : \E e \in ProcessorErrors(userIds[i]) : ForEachFail(i, e)
  \/ \E i \in 1..Len(userIds) : ForEachCancel(i)
  \/ ForEachReturn
  \/ \E o \in FindOutcomes : RetryAttempt(o)
  \/ \E o \in ProgramOutcomes(layer) : Run(o)
  \/ \E outcome \in VoidOutcomes : ProcessFileStep(outcome)
  \/ ProcessFileInterrupt
  \/ \E outcome \in VoidOutcomes : ProcessFileRelease(outcome)
  \/ ProcessFileExit
  \/ \E o \in InjectedOutcomes : RunNoEffect(o)
  \/ ManualStart
  \/ \E i \in 1..Len(userIds) : ManualFulfil(i)
  \/ \E i \in 1..Len(userIds) : \E e \in ProcessorErrors(userIds[i]) : ManualReject(i, e)
  \/ ManualResume
  \/ ManualAwaitAll
  \/ ManualReturn
  \/ \E p \in Callers, outcome \in VoidOutcomes : StoreCacheGet(p, outcome)
  \/ \E p \in Callers : StoreDbQuery(p)
  \/ \E p \in Callers, outcome \in VoidOutcomes : StoreCacheSet(p, outcome)
  \/ \E p \in Callers : StoreEmailQuery(p)
  \/ \E p \in Callers : StoreWrite(p)
  \/ \E p \in Callers, outcome \in VoidOutcomes : StoreCacheDelete(p, outcome)

Spec == Init /\ [][Next]_vars

\* the effect of the item i completes, one way or the other
ForEachItemCompletes(i) ==
  /\ i \in 1..Len(userIds)
  /\ \/ ForEachSucceed(i)
     \/ \E e \in ProcessorErrors(userIds[i]) : ForEachFail(i, e)

\* the runtime keeps scheduling: an item that may start is started, an item in
\* flight completes, and a batch that may return returns
FairSpec ==
  /\ Spec
  /\ \A i \in 1..MaxItems : WF_vars(ForEachStart(i))
  /\ \A i \in 1..MaxItems : WF_vars(ForEachItemCompletes(i))
  /\ WF_vars(ForEachReturn)

\* ------------------------------------------------------------------ properties

Items == 1..Len(userIds)
SucceededItems == { i \in Items : IsSuccess(outcomes[i]) }
FailedItems == { i \in Items : IsFailure(outcomes[i]) }
BatchDone == entry = "processUserBatch" /\ pc = "done"
ForEachEntry == entry = "processWithConcurrencyLimit"
RetryEntry == entry = "processWithRetry"
Terminal == {"Succeeded", "Failed", "Cancelled"}

\* C1: every input id appears in exactly one of the two sequences processUserBatch
\* returns: as often among the userIds of `successful` as it was looked up with
\* success, as often among the userIds of `failed` as its lookup failed, and every
\* failed entry carries the id of an input item.
C1_EveryIdInExactlyOneSequence ==
  BatchDone =>
    LET r == exit.val
    IN  /\ \A id \in Ids :
             /\ Cardinality({ k \in 1..Len(r.successful) : r.successful[k].userId = id })
                  = Cardinality({ i \in SucceededItems : userIds[i] = id })
             /\ Cardinality({ k \in 1..Len(r.failed) : r.failed[k].userId = id })
                  = Cardinality({ i \in FailedItems : userIds[i] = id })
        /\ \A k \in 1..Len(r.failed) : \E i \in FailedItems : r.failed[k].userId = userIds[i]

\* C2: |successful| + |failed| = |userIds|, with one successful entry per id whose
\* getUserProfile succeeded and one failed entry per id whose getUserProfile failed.
C2_CountsAddUp ==
  BatchDone =>
    LET r == exit.val
    IN  /\ Len(r.successful) + Len(r.failed) = Len(userIds)
        /\ Len(r.successful) = Cardinality(SucceededItems)
        /\ Len(r.failed) = Cardinality(FailedItems)

\* [id1, id2, id3] where only the second lookup fails
C2_Witness ==
  /\ BatchDone /\ Len(userIds) = 3
  /\ FailedItems = {2} /\ SucceededItems = {1, 3}
  /\ Len(exit.val.successful) = 2 /\ Len(exit.val.failed) = 1

\* C3: processUserBatch never fails: whatever the services answer it completes with
\* a {successful, failed} value, and it completes only after every item has been
\* run, whether or not an earlier item failed.
C3_BatchNeverFails ==
  (entry = "processUserBatch") =>
    /\ pc = "done" =>
         /\ IsSuccess(exit)
         /\ DOMAIN exit.val = {"successful", "failed"}
         /\ \A i \in Items : outcomes[i].kind # "none"
    /\ pc = "running" => exit = NoExit

\* a DatabaseError on one item, a later item still processed with success
C3_Witness ==
  /\ BatchDone
  /\ \E i, j \in Items :
       /\ i < j
       /\ IsFailure(outcomes[i]) /\ outcomes[i].err.tag = "DatabaseError"
       /\ IsSuccess(outcomes[j])

\* C4: at every instant at most concurrencyLimit processor effects have been
\* started and have not completed.
C4_AtMostLimitInFlight ==
  ForEachEntry => Cardinality(Running) <= limit

\* the window is full again after an item has completed
C4_Witness ==
  /\ ForEachEntry /\ limit = 2
  /\ Cardinality(Running) = limit
  /\ \E i \in Items : itemState[i] = "Succeeded"

\* C5: fail-fast: once an item has failed no pending item is started and an item in
\* flight can only be cancelled; when the batch returns nothing is in flight, the
\* error surfaced is the first failure that occurred, and every cancelled item has
\* run all the release handlers it registered.
C5_FailFastCancels ==
  /\ [](ForEachEntry =>
          /\ interrupted => Len(failLog) >= 1
          /\ (pc = "done" /\ interrupted) =>
               /\ IsFailure(exit) /\ exit.err = failLog[1]
               /\ Running = {}
               /\ \A i \in Items : itemState[i] = "Cancelled" => held[i] = 0)
  /\ [][(ForEachEntry /\ interrupted) =>
          \A i \in Items :
            /\ itemState[i] = "Pending" => itemState'[i] = "Pending"
            /\ itemState[i] = "Running" => itemState'[i] \in {"Running", "Cancelled"}]_vars

\* the batch has returned a failure, a sibling that held a release handler was
\* cancelled and a pending item was never started
C5_Witness ==
  /\ ForEachEntry /\ pc = "done" /\ interrupted
  /\ \E i \in Items : itemState[i] = "Cancelled" /\ released[i] >= 1
  /\ Pending # {}

\* C6: every batch item moves Pending -> Running -> {Succeeded, Failed, Cancelled};
\* the three end states are never left; an item becomes Cancelled only from
\* Running, only in the fail-fast batch and only when a sibling has Failed.
C6_ItemStateMachine ==
  [][\A i \in Items :
       /\ itemState[i] = "Pending" => itemState'[i] \in {"Pending", "Running"}
       /\ itemState[i] = "Running" => itemState'[i] # "Pending"
       /\ itemState[i] \in Terminal => itemState'[i] = itemState[i]
       /\ (itemState'[i] = "Cancelled" /\ itemState[i] # "Cancelled") =>
            /\ itemState[i] = "Running"
            /\ ForEachEntry
            /\ \E j \in Items \ {i} : itemState[j] = "Failed"]_vars

\* one item succeeded, one failed and its sibling in flight was cancelled
C6_Witness ==
  /\ \E i \in Items : itemState[i] = "Succeeded"
  /\ \E i \in Items : itemState[i] = "Failed"
  /\ \E i \in Items : itemState[i] = "Cancelled"

\* C7: with a lookup that fails on every attempt processWithRetry runs
\* getUserProfile exactly 1 + 3 times and returns the last failure as it is.
C7_AlwaysFailingRunsFourTimes ==
  (RetryEntry /\ pc = "done" /\ \A k \in 1..Len(attempts) : IsFailure(attempts[k])) =>
    /\ Len(attempts) = 1 + RetryRecurs
    /\ exit = attempts[Len(attempts)]

\* four failures, the surfaced one differing from the first
C7_Witness ==
  /\ RetryEntry /\ pc = "done"
  /\ Len(attempts) = 4
  /\ \A k \in 1..4 : IsFailure(attempts[k])
  /\ attempts[1].err.tag = "DatabaseError"
  /\ exit.err.tag = "UserNotFoundError"

\* C8: a success ends the retrying: a successful attempt is the last attempt and is
\* the result; at most 1 + 3 attempts are made; a failure is the result only after
\* the schedule is exhausted.
C8_SuccessEndsRetrying ==
  RetryEntry =>
    /\ Len(attempts) <= 1 + RetryRecurs
    /\ \A k \in 1..Len(attempts) :
         IsSuccess(attempts[k]) => (k = Len(attempts) /\ pc = "done" /\ IsSuccess(exit)
                                      /\ exit.val = attempts[k].val)
    /\ (pc = "done" /\ IsFailure(exit)) => Len(attempts) = 1 + RetryRecurs

\* two failures, then a success on the third attempt
C8_Witness ==
  /\ RetryEntry /\ pc = "done"
  /\ Len(attempts) = 3
  /\ IsFailure(attempts[1]) /\ IsFailure(attempts[2])
  /\ IsSuccess(exit)
RunDone == entry = "run" /\ pc = "done"
Called(op) == \E k \in 1..Len(trace) : trace[k].call = op
CalledWith(op, arg) == \E k \in 1..Len(trace) : trace[k].call = op /\ trace[k].arg = arg
HandledCacheError(message) ==
  \E k \in 1..Len(trace) :
    /\ trace[k].call = "logger.error" /\ trace[k].arg = message
    /\ trace[k].error.tag = "CacheError"

\* C9: an effect is executed only when the layer provides every service it
\* requires: otherwise the run is rejected and no service call, in particular no
\* database call, is made; runWithLive / runWithTest provide Database, Cache and
\* Logger, which covers the requirements of every program they accept, so they
\* never reject.
C9_RunOnlyWithAllRequirements ==
  RunDone =>
    /\ ~(Requirements(program.op) \subseteq DOMAIN layer) =>
         /\ exit.kind = "rejected"
         /\ ~Called("db.query") /\ ~Called("db.execute")
    /\ exit.kind # "rejected" => Requirements(program.op) \subseteq DOMAIN layer
    /\ runner \in {"runWithLive", "runWithTest"} =>
         /\ Requirements(program.op) \subseteq Services
         /\ DOMAIN AppLayerLive = Services /\ DOMAIN AppLayerTest = Services
         /\ exit.kind # "rejected"

\* an effect that requires Database and Cache (and Logger) run against a layer that
\* provides only Database
C9_Witness ==
  /\ RunDone /\ runner = "provide"
  /\ program.op = "findUserById"
  /\ DOMAIN layer = {"Database"}
  /\ exit.kind = "rejected" /\ trace = <<>>

\* C10: catchTag intercepts exactly its variant: in findUserById the two CacheError
\* handlers run with the error exactly when cache.get, respectively cache.set, was
\* called and failed; in exampleProgram the ValidationError handler supplies the
\* fallback user exactly when registerUser failed with ValidationError, and any other
\* failure of registerUser is the failure of exampleProgram, unchanged.
C10_CatchTagExactlyItsVariant ==
  (RunDone /\ exit.kind # "rejected") =>
    /\ program.op = "findUserById" =>
         /\ HandledCacheError("Cache error while fetching user")
              <=> (Called("cache.get") /\ served.cacheGet.kind = "error")
         /\ HandledCacheError("Failed to cache user")
              <=> (Called("cache.set") /\ served.cacheSet = "error")
    /\ program.op = "exampleProgram" =>
         LET reg == RegisterUser(ExampleInput, served).exit
             fellBack == CalledWith("cache.get", "user:fallback")
         IN  /\ fellBack <=> (IsFailure(reg) /\ reg.err.tag = "ValidationError")
             /\ fellBack => CalledWith("console.log", "Created user: " \o reg.err.message)
             /\ (IsFailure(reg) /\ reg.err.tag # "ValidationError") =>
                  /\ exit = reg
                  /\ ~Called("cache.get")
             /\ IsSuccess(reg) =>
                  /\ IsSuccess(exit)
                  /\ CalledWith("console.log", "Created user: " \o ExampleInput.name)
                  /\ CalledWith("cache.get", "user:" \o reg.val.id)

\* exampleProgram where registerUser fails with DatabaseError: not caught
C10_Witness ==
  /\ RunDone /\ program.op = "exampleProgram"
  /\ IsFailure(exit) /\ exit.err.tag = "DatabaseError"
  /\ Called("db.execute")

Positions(op) == { k \in 1..Len(trace) : trace[k].call = op }
UpdatePositions ==
  { k \in Positions("db.execute") : trace[k].arg = "UPDATE users SET email = ?, name = ? WHERE id = ?" }
DeletePositions ==
  { k \in Positions("db.execute") : trace[k].arg = "DELETE FROM users WHERE id = ?" }
InsertPositions ==
  { k \in Positions("db.execute") :
      trace[k].arg = "INSERT INTO users (id, email, name, created_at) VALUES (?, ?, ?, ?)" }
AllBefore(S, T) == \A i \in S, j \in T : i < j
Ran == RunDone /\ exit.kind # "rejected"
FindOps == {"findUserById", "getUserProfile", "getUserHandler"}
UpdateOps == {"updateUser", "changeEmail", "updateEmailHandler"}

\* C11: sequenced effects run strictly in program order. In findUserById the cache
\* read comes before the database query, which comes before the cache write, and a
\* later step is reached only after the earlier one; in updateUser the UPDATE is
\* issued, once, before the cache delete.
C11_StepsInProgramOrder ==
  Ran =>
    /\ program.op \in FindOps =>
         /\ AllBefore(Positions("cache.get"), Positions("db.query"))
         /\ AllBefore(Positions("db.query"), Positions("cache.set"))
         /\ Called("db.query") => Called("cache.get")
         /\ Called("cache.set") => Called("db.query")
    /\ program.op \in UpdateOps =>
         /\ AllBefore(UpdatePositions, Positions("cache.delete"))
         /\ Called("cache.delete") => Cardinality(UpdatePositions) = 1
         /\ AllBefore(Positions("cache.get"), UpdatePositions)

\* updateUser that missed the cache, read and cached the row, wrote the update and
\* invalidated the cache
C11_Witness ==
  /\ Ran /\ program.op = "updateUser" /\ IsSuccess(exit)
  /\ Called("cache.get") /\ Called("db.query") /\ Called("cache.set")
  /\ UpdatePositions # {} /\ Called("cache.delete")

RegisterOps == {"registerUser", "createUserHandler"}
ChangeEmailOps == {"changeEmail", "updateEmailHandler"}
\* the failure the program ended with, a handler having turned it into a response
FailedWith(e) ==
  IF program.op \in {"getUserHandler", "createUserHandler", "updateEmailHandler"}
    THEN exit = Succeed(MapErrorToResponse(e))
    ELSE exit = Fail(e)

\* C12: the first failure of a sequence is the failure of the sequence and no later
\* step starts. registerUser issues no query and no INSERT unless validateEmail and
\* validateName both succeeded; changeEmail does not start updateUser when
\* validateEmail fails; deleteUser issues neither the DELETE nor the cache delete
\* when findUserById fails.
C12_FirstFailureShortCircuits ==
  Ran =>
    /\ (program.op \in RegisterOps /\ IsFailure(ValidateEmail(program.args.email))) =>
         /\ trace = <<>>
         /\ FailedWith(ValidateEmail(program.args.email).err)
    /\ (program.op \in RegisterOps /\ IsSuccess(ValidateEmail(program.args.email))
          /\ IsFailure(ValidateName(program.args.name))) =>
         /\ trace = <<>>
         /\ FailedWith(ValidateName(program.args.name).err)
    /\ (program.op \in RegisterOps /\ (Called("db.query") \/ InsertPositions # {})) =>
         /\ IsSuccess(ValidateEmail(program.args.email))
         /\ IsSuccess(ValidateName(program.args.name))
    /\ (program.op \in ChangeEmailOps /\ IsFailure(ValidateEmail(program.args.email))) =>
         /\ trace = <<>>
         /\ ~CalledWith("logger.info", "Updating user")
         /\ FailedWith(ValidateEmail(program.args.email).err)
    /\ (program.op = "deleteUser"
          /\ IsFailure(FindUserById(program.args.id, served).exit)) =>
         /\ DeletePositions = {}
         /\ ~Called("cache.delete")
         /\ exit = FindUserById(program.args.id, served).exit

\* deleteUser whose findUserById found no row
C12_Witness ==
  /\ Ran /\ program.op = "deleteUser"
  /\ IsFailure(exit) /\ exit.err.tag = "UserNotFoundError"
  /\ Called("db.query")

TypedOps ==
  {"findUserById", "findUserByEmail", "createUser", "updateUser", "deleteUser",
   "getUserProfile", "registerUser", "changeEmail",
   "getUserHandler", "createUserHandler", "updateEmailHandler"}

\* C13: an operation fails only with an error of its declared error type:
\* findUserByEmail only with DatabaseError; createUser and registerUser only with
\* ValidationError or DatabaseError; findUserById, getUserProfile and deleteUser only
\* with UserNotFoundError, DatabaseError or CacheError; updateUser and changeEmail
\* with any of the four.
C13_FailsOnlyWithDeclaredErrors ==
  (Ran /\ program.op \in TypedOps /\ IsFailure(exit)) =>
    exit.err.tag \in DeclaredErrors(program.op)

\* createUser refused because the email is already in use
C13_Witness ==
  /\ Ran /\ program.op = "createUser"
  /\ IsFailure(exit) /\ exit.err.tag = "ValidationError"
  /\ InsertPositions = {}

HandlerOps == {"getUserHandler", "createUserHandler", "updateEmailHandler"}
\* the exit of the operation a handler wraps, under the answers that were served
Underlying ==
  CASE program.op = "getUserHandler" -> GetUserProfile(program.args.id, served).exit
    [] program.op = "createUserHandler" ->
         RegisterUser([email |-> program.args.email, name |-> program.args.name], served).exit
    [] program.op = "updateEmailHandler" ->
         ChangeEmail(program.args.id, program.args.email, served).exit
ErrorSamples ==
  { UserNotFoundError("u1"), ValidationError("Invalid email format", "email"),
    DatabaseError("query failed"), CacheError("get failed") }

\* C14: mapErrorToResponse is total over the four error variants
\* (UserNotFoundError 404, ValidationError 400, DatabaseError 503, CacheError 503);
\* the handlers never fail; their response has status 200 (getUserHandler), 201
\* (createUserHandler), 200 (updateEmailHandler) exactly when the wrapped operation
\* succeeded, and otherwise is the mapped error.
C14_HandlersAlwaysRespond ==
  /\ \A e \in ErrorSamples :
       MapErrorToResponse(e).status =
         (CASE e.tag = "UserNotFoundError" -> 404
            [] e.tag = "ValidationError" -> 400
            [] e.tag = "DatabaseError" -> 503
            [] e.tag = "CacheError" -> 503)
  /\ (Ran /\ program.op \in HandlerOps) =>
       /\ IsSuccess(exit)
       /\ exit.val.status = (IF program.op = "createUserHandler" THEN 201 ELSE 200)
            <=> IsSuccess(Underlying)
       /\ IsSuccess(Underlying) => exit.val.body = Underlying.val
       /\ IsFailure(Underlying) =>
            /\ exit.val = MapErrorToResponse(Underlying.err)
            /\ exit.val.status \in {404, 400, 503}

\* updateEmailHandler answering 400 to an invalid email without touching a service
C14_Witness ==
  /\ Ran /\ program.op = "updateEmailHandler"
  /\ exit.val.status = 400 /\ exit.val.body.field = "email"
  /\ trace = <<>>

IsDbCall(c) == c.call \in {"db.query", "db.execute"}
DbCalls(t) == SelectSeq(t, IsDbCall)
CacheMiss == [kind |-> "miss", user |-> NoUser]

\* C15: cache failures degrade to the behaviour of a cache miss, storage failures and
\* a missing row are surfaced. In findUserById a failing cache.get leads to the same
\* database query and the same result as a miss and a failing cache.set does not
\* change the user returned; in updateUser and deleteUser a failing cache.delete
\* does not fail the operation; a failing query ends in DatabaseError and an empty
\* result in UserNotFoundError.
C15_CacheDegradesStorageSurfaces ==
  Ran =>
    /\ (program.op = "findUserById" /\ served.cacheGet.kind = "error") =>
         LET miss == FindUserById(program.args.id, [served EXCEPT !.cacheGet = CacheMiss])
         IN  /\ exit = miss.exit
             /\ DbCalls(trace) = DbCalls(miss.trace)
             /\ Len(DbCalls(trace)) = 1
    /\ (program.op = "findUserById" /\ served.cacheSet = "error" /\ Called("cache.set")) =>
         /\ IsSuccess(exit)
         /\ exit = FindUserById(program.args.id, [served EXCEPT !.cacheSet = "ok"]).exit
         /\ exit.val = served.dbQuery.rows[1]
    /\ (program.op = "updateUser" /\ served.cacheDelete = "error" /\ Called("cache.delete")) =>
         /\ IsSuccess(exit)
         /\ exit = UpdateUser(program.args.id, program.args,
                              [served EXCEPT !.cacheDelete = "ok"]).exit
    /\ (program.op = "deleteUser" /\ served.cacheDelete = "error" /\ Called("cache.delete")) =>
         IsSuccess(exit)
    /\ (program.op \in {"findUserById", "updateUser", "deleteUser"}
          /\ served.cacheGet.kind # "hit") =>
         /\ served.dbQuery.kind = "error" =>
              (IsFailure(exit) /\ exit.err.tag = "DatabaseError")
         /\ (served.dbQuery.kind = "rows" /\ served.dbQuery.rows = <<>>) =>
              exit = Fail(UserNotFoundError(program.args.id))
    /\ (program.op \in {"updateUser", "deleteUser"} /\ served.dbExecute = "error"
          /\ Called("db.execute")) =>
         (IsFailure(exit) /\ exit.err.tag = "DatabaseError")

\* deleteUser that succeeded although the cache delete failed
C15_Witness ==
  /\ Ran /\ program.op = "deleteUser" /\ IsSuccess(exit)
  /\ served.cacheDelete = "error"
  /\ HandledCacheError("Failed to invalidate user cache after delete")

ProcessFileEntry == entry = "processFile"
ReleaseIndex(r) == CHOOSE j \in 1..Len(releaseLog) : releaseLog[j] = r
WasReleased(r) == \E j \in 1..Len(releaseLog) : releaseLog[j] = r
Reverse(q) == [k \in 1..Len(q) |-> q[Len(q) + 1 - k]]

\* C16: in a scoped computation every acquired resource is released exactly once,
\* only after the body has ended, on every exit path (success, typed failure,
\* cancellation), and in the reverse order of acquisition: in processFile the
\* connection is released before the file, also when the body fails.
C16_ReleasedOnceInReverseOrder ==
  ProcessFileEntry =>
    /\ releaseLog # <<>> => primary # NoExit
    /\ \A i, j \in 1..Len(releaseLog) : releaseLog[i] = releaseLog[j] => i = j
    /\ \A j \in 1..Len(releaseLog) : releaseLog[j] = Reverse(scope)[j]
    /\ (WasReleased("file") /\ Len(scope) = 2) =>
         (WasReleased("connection") /\ ReleaseIndex("connection") < ReleaseIndex("file"))
    /\ pc = "done" =>
         /\ primary.kind \in {"success", "failure", "interrupted"}
         /\ releaseLog = Reverse(scope)

\* the body failed at connection.insert with both resources acquired, and the
\* connection, then the file, were released
C16_Witness ==
  /\ ProcessFileEntry /\ pc = "done"
  /\ primary = Fail(DatabaseError("insert failed"))
  /\ releaseLog = <<"connection", "file">>

\* C17: a failure of a release handler is never dropped: when the body fails and a
\* release step fails too, the outcome carries the body's failure and the release
\* failure, both; a release failure after a successful or cancelled body is
\* reported as well.
C17_ReleaseFailureReported ==
  (ProcessFileEntry /\ pc = "done") =>
    /\ exit.defects = defects
    /\ Len(defects) = Cardinality({ j \in 1..Len(releaseLog) :
                                      \E k \in 1..Len(defects) : defects[k].resource = releaseLog[j] })
    /\ IsFailure(primary) => (IsFailure(exit) /\ exit.err = primary.err)
    /\ defects # <<>> => ~IsSuccess(exit)

\* file.read failed and closing the connection failed: both are in the outcome
C17_Witness ==
  /\ ProcessFileEntry /\ pc = "done"
  /\ IsFailure(exit) /\ exit.err = FileError("read failed")
  /\ exit.defects = << CloseDefect("connection") >>

Untouched ==
  /\ trace = <<>> /\ served = NoOutcomes /\ exit = NoExit
  /\ \A i \in Items : itemState[i] = "Pending" /\ outcomes[i] = NoExit
  /\ attempts = <<>> /\ delays = <<>>
  /\ scope = <<>> /\ releaseLog = <<>>

\* C18: building and composing effect values performs no observable action:
\* constructing findUserById(id), registerUser(input), processUserBatch(ids) or
\* exampleProgram issues no Database, Cache, Logger or Console call and starts no
\* item; calls are recorded only by the step that executes the value through
\* runWithLive / runWithTest / provide, with every requirement provided.
C18_BuildingIsSideEffectFree ==
  /\ [](pc = "new" => Untouched)
  /\ [][(pc = "new" /\ pc' # "new") => (pc' = "running" /\ Untouched')]_vars
  /\ [][(entry # "noEffect" /\ trace' # trace) =>
          (/\ entry = "run" /\ pc = "running" /\ pc' = "done"
           /\ Requirements(program.op) \subseteq DOMAIN layer)]_vars

\* findUserById("u1") built and handed to no runner yet
C18_Witness ==
  /\ entry = "run" /\ pc = "running"
  /\ program.op = "findUserById" /\ program.args.id = "u1"
  /\ trace = <<>> /\ exit = NoExit

PureOps == {"succeed", "mapId", "mapTwice", "mapComposed"}

\* C19: running succeed(v) against any registry yields v, with no error and no
\* service call; map obeys the functor laws: map(e, id) behaves as e, in particular
\* map(succeed(x), id) as succeed(x), and map(map(e, f), g) yields the same result as
\* map(e, g after f).
C19_SucceedAndFunctorLaws ==
  (RunDone /\ program.op \in PureOps) =>
    /\ exit.kind # "rejected" /\ trace = <<>>
    /\ program.op = "succeed" => exit = Succeed(BaseValue)
    /\ program.op = "mapId" => exit = BaseEffect(program.args.base)
    /\ program.op = "mapTwice" =>
         /\ exit = EffectMap(BaseEffect(program.args.base),
                             Compose(<< program.args.g >>, << program.args.f >>))
         /\ program.args.base = "succeed" =>
              exit = Succeed(ApplyFn(program.args.g, ApplyFn(program.args.f, BaseValue)))
    /\ program.op = "mapComposed" =>
         exit = EffectMap(EffectMap(BaseEffect(program.args.base), << program.args.f >>),
                          << program.args.g >>)

\* map(map(succeed(5), inc), double) run against the empty registry: 12
C19_Witness ==
  /\ RunDone /\ program.op = "mapTwice" /\ layer = <<>>
  /\ program.args.f = "inc" /\ program.args.g = "double"
  /\ exit = Succeed(12)

NoEffectDone == entry = "noEffect" /\ pc = "done"
IsDataCall(c) == c.call \in {"db.query", "db.execute", "cache.get", "cache.set", "cache.delete"}
DataCalls(t) == SelectSeq(t, IsDataCall)
\* the execution of the with-effect counterpart under the same answers
WithEffect == Execute(Program(Counterpart(program.op), program.args), served)
IsController == program.op \in {"UserController.getUser", "UserController.createUser",
                                "UserController.updateEmail"}

FindUserByIdDeclared == {"UserNotFoundError", "DatabaseError", "CacheError"}

\* findUserById(id) ends in a failure of the variant under some answers of the services
FindUserByIdCanFailWith(id, variant) ==
  \E o \in FindOutcomes :
    LET Failed(r) == IsFailure(r.exit) /\ r.exit.err.tag = variant
    IN  Failed(FindUserById(id, o))

FindByIdListed == {"UserNotFoundError", "DatabaseError", "CacheError"}

\* findById(id) rejects with an error of the class under some behaviour of db and cache
FindByIdCanThrow(id, class) ==
  \E o \in FindOutcomes :
    LET Threw(r) == IsFailure(r.exit) /\ r.exit.err.tag = class
    IN  Threw(UserRepositoryFindById(id, o))

FindByIdRan ==
  \/ Ran /\ program.op = "findUserById"
  \/ NoEffectDone /\ program.op = "UserRepository.findById"

\* C25: findUserById tries the cache first. When cache.get returns a user for the
\* key user:<id>, that user is returned and neither a database query nor a cache
\* write is issued; the database is queried, exactly once, only on a cache miss or
\* a cache error; the cache is written, under the key user:<id> with TTL 300, only
\* after the query returned a row, never when the user is not found.
C25_CacheFirst ==
  FindByIdRan =>
    LET key == "user:" \o program.args.id
        gets == Positions("cache.get")
        queries == Positions("db.query")
        sets == Positions("cache.set")
    IN  /\ Cardinality(gets) = 1
        /\ \A k \in gets : trace[k].arg = key
        /\ AllBefore(gets, queries \cup sets)
        /\ served.cacheGet.kind = "hit" =>
             /\ exit = Succeed(served.cacheGet.user)
             /\ queries = {} /\ sets = {}
        /\ served.cacheGet.kind \in {"miss", "error"} => Cardinality(queries) = 1
        /\ queries # {} => served.cacheGet.kind \in {"miss", "error"}
        /\ \A k \in sets :
             /\ queries # {} /\ AllBefore(queries, {k})
             /\ served.dbQuery.kind = "rows" /\ Len(served.dbQuery.rows) > 0
             /\ trace[k].arg = key /\ trace[k].ttl = 300
             /\ trace[k].value = served.dbQuery.rows[1]
        /\ Cardinality(sets) <= 1
        /\ (IsFailure(exit) /\ exit.err.tag = "UserNotFoundError") => sets = {}

\* a hit that was returned without touching the database
C25_Witness ==
  /\ NoEffectDone /\ program.op = "UserRepository.findById"
  /\ served.cacheGet.kind = "hit" /\ exit = Succeed(served.cacheGet.user)
  /\ Called("cache.get") /\ ~Called("db.query") /\ ~Called("cache.set")

\* ------------------------------------------------------------------ check before write

\* an execution of createUser, in either implementation, has ended
CreateRan ==
  \/ Ran /\ program.op = "createUser"
  \/ NoEffectDone /\ program.op = "UserRepository.create"

EmailQueryPositions ==
  { k \in Positions("db.query") : trace[k].arg = "SELECT * FROM users WHERE email = ?" }

\* C26: createUser checks for a duplicate email before writing. If the lookup by
\* email returns an existing user, createUser fails with ValidationError on the
\* field "email" and no INSERT is executed; an INSERT is executed only after the
\* lookup returned no user; a DatabaseError from the lookup also prevents the INSERT.
C26_DuplicateCheckBeforeInsert ==
  CreateRan =>
    /\ Cardinality(EmailQueryPositions) = 1
    /\ \A k \in EmailQueryPositions : trace[k].params = <<program.args.email>>
    /\ (served.emailQuery.kind = "rows" /\ Len(served.emailQuery.rows) > 0) =>
         /\ IsFailure(exit)
         /\ exit.err.tag = "ValidationError" /\ exit.err.field = "email"
         /\ InsertPositions = {}
    /\ served.emailQuery.kind = "error" =>
         /\ IsFailure(exit) /\ exit.err.tag = "DatabaseError"
         /\ InsertPositions = {}
    /\ InsertPositions # {} =>
         /\ served.emailQuery.kind = "rows" /\ Len(served.emailQuery.rows) = 0
         /\ AllBefore(EmailQueryPositions, InsertPositions)
         /\ Cardinality(InsertPositions) = 1

\* createUser stopped by an existing user with the same email
C26_Witness ==
  /\ NoEffectDone /\ program.op = "UserRepository.create"
  /\ Len(served.emailQuery.rows) > 0
  /\ exit = Fail(ValidationError("Email already in use", "email"))
  /\ EmailQueryPositions # {} /\ InsertPositions = {}

\* ------------------------------------------------------------------ update

\* an execution of updateUser, in either implementation, has ended
UpdateRan ==
  \/ Ran /\ program.op = "updateUser"
  \/ NoEffectDone /\ program.op = "UserRepository.update"

\* how the findUserById at the start of the update ended
StoredUser ==
  IF entry = "noEffect"
    THEN UserRepositoryFindById(program.args.id, served).exit
    ELSE FindUserById(program.args.id, served).exit

\* C27: updateUser invalidates the cache entry user:<id> only after the UPDATE
\* statement succeeded. If findUserById, the email-uniqueness check or the UPDATE
\* fails, no cache delete is issued and the error is returned; the uniqueness
\* lookup is performed only when input.email is present and differs from the
\* stored email; the returned user has the input fields overriding the stored ones
\* and the same id and createdAt.
C27_InvalidateOnlyAfterUpdate ==
  UpdateRan =>
    LET Holds(found, input, deletes) ==
          /\ deletes # {} =>
               /\ Cardinality(UpdatePositions) = 1 /\ served.dbExecute = "ok"
               /\ AllBefore(UpdatePositions, deletes)
               /\ \A k \in deletes : trace[k].arg = "user:" \o program.args.id
          /\ IsFailure(found) =>
               /\ exit = found
               /\ deletes = {} /\ UpdatePositions = {} /\ EmailQueryPositions = {}
          /\ IsSuccess(found) =>
               /\ EmailQueryPositions # {} =>
                    input.hasEmail /\ input.email # found.val.email
               /\ (EmailQueryPositions # {} /\ served.emailQuery.kind = "error") =>
                    /\ IsFailure(exit) /\ exit.err.tag = "DatabaseError"
                    /\ UpdatePositions = {} /\ deletes = {}
               /\ (EmailQueryPositions # {} /\ Len(served.emailQuery.rows) > 0) =>
                    /\ IsFailure(exit) /\ exit.err.tag = "ValidationError"
                    /\ UpdatePositions = {} /\ deletes = {}
               /\ (UpdatePositions # {} /\ served.dbExecute = "error") =>
                    /\ IsFailure(exit) /\ exit.err.tag = "DatabaseError"
                    /\ deletes = {}
               /\ IsSuccess(exit) =>
                    /\ deletes # {}
                    /\ exit.val.id = found.val.id
                    /\ exit.val.createdAt = found.val.createdAt
                    /\ exit.val.email =
                         (IF input.hasEmail THEN input.email ELSE found.val.email)
                    /\ exit.val.name =
                         (IF input.hasName THEN input.name ELSE found.val.name)
    IN  Holds(StoredUser, program.args, Positions("cache.delete"))

\* an update whose UPDATE statement failed after the uniqueness lookup had passed
C27_Witness ==
  /\ NoEffectDone /\ program.op = "UserRepository.update"
  /\ EmailQueryPositions # {} /\ UpdatePositions # {}
  /\ served.dbExecute = "error"
  /\ exit = Fail(DatabaseError("Failed to update user"))
  /\ ~Called("cache.delete")

\* ------------------------------------------------------------------ manual concurrency limit

\* C23: the manual processWithConcurrencyLimit(items, processor, concurrencyLimit)
\* processes with a concurrency limit: at every instant the number of
\* processor(item) promises started and not yet settled is at most
\* concurrencyLimit, for every item count and every order of settling.
C23_ManualAtMostLimitInFlight ==
  ManualEntry => Cardinality(ManualInFlight) <= limit

\* ------------------------------------------------------------------ sliding window

\* the item i is the next pending one
NextPending(i) == i \in Pending /\ \A j \in Pending : i <= j

\* C22: the bounded batch uses a sliding window, not fixed batches. As soon as an
\* item in flight has completed, so that fewer than concurrencyLimit items are in
\* flight, and a pending item remains, the next pending item can be started,
\* whatever the state of the other items in flight; consequently, while no item has
\* failed, every pending item is eventually started and the batch eventually
\* completes, each item's effect completing once started.
C22_SlidingWindow ==
  /\ [](\A i \in 1..MaxItems :
          (ForEachEntry /\ pc = "running" /\ ~interrupted
             /\ NextPending(i) /\ Cardinality(Running) < limit) =>
            ENABLED ForEachStart(i))
  /\ \A i \in 1..MaxItems :
       (ForEachEntry /\ pc = "running" /\ i \in Pending)
         ~> (interrupted \/ (i \in Items /\ itemState[i] # "Pending"))
  /\ (ForEachEntry /\ pc = "running")
       ~> (interrupted \/ (pc = "done" /\ IsSuccess(exit)))

\* the third item was started while the first was still in flight, the second
\* having completed
C22_Witness ==
  /\ ForEachEntry /\ limit = 2 /\ ~interrupted
  /\ Len(userIds) = 3
  /\ itemState = <<"Running", "Succeeded", "Running">>

\* ------------------------------------------------------------------ shared store

AllCallsDone == \A p \in Callers : calls[p].at = "done"

\* C28: email uniqueness is preserved: starting from a store with pairwise distinct
\* emails, after any interleaving of concurrent createUser and updateUser calls,
\* each doing its lookup by email followed by its INSERT or UPDATE, no two stored
\* users have the same email.
C28_EmailsStayUnique ==
  (StoreEntry /\ AllCallsDone) =>
    \A u \in db, v \in db : u # v => u.email # v.email

\* C29: a deleted user is never returned: after deleteUser(id) has completed
\* successfully, every findUserById(id) started later, no create coming in between,
\* fails with UserNotFoundError, also when the cache delete inside deleteUser
\* failed and was recovered.
C29_DeletedNeverReturned ==
  StoreEntry =>
    \A p \in Callers :
      (calls[p].op = "findById" /\ calls[p].at = "done"
         /\ calls[p].args.id \in calls[p].after) =>
        calls[p].exit = Fail(ThrownUserNotFoundError(calls[p].args.id))

====
